---- MODULE Spec2Model ----
(***************************************************************************)
(* A model of the time/date-range interpreter of cmd/reserve/parsetime.go: *)
(* the token queue, the calendar helpers, the absolute time builder, the   *)
(* grammar interpreter (parseTimeSpec, parseRelativeDuration) and the two  *)
(* entry points ParseRange and ParseDuration.                              *)
(*                                                                         *)
(* An instant is the number of seconds of local wall-clock time since      *)
(* 1970-01-01 00:00:00.  time.Local is taken to be a zone with a fixed     *)
(* offset that is a multiple of 30 minutes, as in the repository's tests   *)
(* (-0400): then Add, Sub, Before, Round and AddDate of package time act   *)
(* on this number as written below.                                        *)
(***************************************************************************)
EXTENDS Integers, Sequences, FiniteSets, TLC

VARIABLES
    now,        \* the reference instant handed to the entry point
    args,       \* the phrase: the caller's words, in order
    op,         \* the entry point called: "none", "ParseRange", "ParseDuration"
    pc,         \* the position inside the entry point
    tokens,     \* fifo.tokens: the queue the grammar consumes
    lead,       \* the token t peeked at label again (ParseRange), line 1038/1125
    anchor,     \* parseTimeSpec's parameter start
    timespec,   \* parseTimeSpec's local timespec (NilTime while nil)
    tsret,      \* what the last parseTimeSpec call returned: [t, err]
    start,      \* ParseRange's local start
    ret,        \* what the entry point returned: [line, start, end, err]
    memory,     \* the reservation server's store, type memory (memory.go)
    file,       \* the records of the JSONL log file, oldest first (jsonl.go)
    clock,      \* time.Now() on the server
    client      \* per client of the server: its read and its Update call

\* The state of a call of the parser, and the state of the reservation
\* server, which the parser never touches.
parsevars == <<now, args, op, pc, tokens, lead, anchor, timespec, tsret, start, ret>>

storevars == <<memory, file, clock, client>>

vars == <<now, args, op, pc, tokens, lead, anchor, timespec, tsret, start, ret,
          memory, file, clock, client>>

(***************************************************************************)
(* Bounds of the model.                                                    *)
(***************************************************************************)
\* The most words in a phrase.
MaxLen == 4

\* The largest month and day numbers written in a date.
MaxMonth == 13
MaxDay == 32

(***************************************************************************)
(* package time, on seconds of local wall-clock time.                      *)
(***************************************************************************)
\* time.Second, time.Minute, time.Hour
Duration == [Second |-> 1, Minute |-> 60, Hour |-> 3600]
SecondsPerDay == 24 * Duration.Hour

\* The leap years of the Julian calendar.
isLeapYear_Julian(year) == year % 4 = 0

isLeapYear(year) ==
    IF year % 4 = 0
    THEN IF year % 100 = 0
         THEN IF year % 400 = 0 THEN TRUE ELSE FALSE
         ELSE TRUE
    ELSE FALSE

\* Days from 1970-01-01 to the first day of month m of year y (m in 1..12).
DaysToMonth(y, m) ==
    LET yy  == IF m <= 2 THEN y - 1 ELSE y
        era == yy \div 400
        yoe == yy - era * 400
        mp  == IF m > 2 THEN m - 3 ELSE m + 9
        doy == (153 * mp + 2) \div 5
        doe == yoe * 365 + yoe \div 4 - yoe \div 100 + doy
    IN  era * 146097 + doe - 719468

\* The civil date [year, month, day] of day number z (days since 1970-01-01),
\* worked out era by era: the day of the era, the year of the era, the day
\* of the year counted from March 1, and the month counted from March.
CivilOfMonth(era, yoe, doy, mp) ==
    [year  |-> yoe + era * 400 + (IF mp < 10 THEN 0 ELSE 1),
     month |-> IF mp < 10 THEN mp + 3 ELSE mp - 9,
     day   |-> doy - (153 * mp + 2) \div 5 + 1]

CivilOfYear(era, doe, yoe) ==
    CivilOfMonth(era, yoe, doe - (365 * yoe + yoe \div 4 - yoe \div 100),
                 (5 * (doe - (365 * yoe + yoe \div 4 - yoe \div 100)) + 2) \div 153)

CivilOfEra(era, doe) ==
    CivilOfYear(era, doe,
                (doe - doe \div 1460 + doe \div 36524 - doe \div 146096) \div 365)

CivilOfDay(z) ==
    CivilOfEra((z + 719468) \div 146097,
               (z + 719468) - ((z + 719468) \div 146097) * 146097)

\* time.Date(year, month, day, hour, min, sec, 0, time.Local): values outside
\* their ranges are normalised (October 32 is November 1, 24:00 is 00:00 of
\* the next day, minute 75 is 15 past the next hour).
GoDate(year, month, day, hour, min, sec) ==
    (DaysToMonth(year, month) + day - 1) * SecondsPerDay
        + hour * Duration.Hour + min * Duration.Minute + sec

GoYear(t)    == CivilOfDay(t \div SecondsPerDay).year
GoMonth(t)   == CivilOfDay(t \div SecondsPerDay).month
GoDay(t)     == CivilOfDay(t \div SecondsPerDay).day
GoHourOf(t)  == (t % SecondsPerDay) \div Duration.Hour
GoMinuteOf(t) == (t % Duration.Hour) \div Duration.Minute
GoSecondOf(t) == t % Duration.Minute
\* time.Weekday: Sunday = 0; 1970-01-01 was a Thursday.
GoWeekday(t) == (t \div SecondsPerDay + 4) % 7

\* t.Round(d): the nearest multiple of d, halfway values rounded up.
GoRound(t, d) ==
    LET r == t % d IN IF r + r < d THEN t - r ELSE t + d - r

\* t.AddDate(0, 0, days)
GoAddDays(t, days) ==
    GoDate(GoYear(t), GoMonth(t), GoDay(t) + days,
           GoHourOf(t), GoMinuteOf(t), GoSecondOf(t))

\* The number of days of a month, as time.Parse checks a parsed day.
DaysIn(month, year) ==
    IF month = 2 THEN (IF isLeapYear(year) THEN 29 ELSE 28)
    ELSE IF month \in {4, 6, 9, 11} THEN 30 ELSE 31

\* The zero time.Time (var start, end time.Time) and a nil *Time.
ZeroTime == 0
NilTime == -1

(***************************************************************************)
(* Tokens (type token, lines 84-94) and the token type names (96-121).     *)
(* Val is the token's text as a sequence of characters.                    *)
(***************************************************************************)
NoToken ==
    [Val |-> <<>>, Num |-> 0, Type |-> "TokNone", Year |-> 0, Month |-> 0,
     Day |-> 0, Hour |-> 0, Minute |-> 0, count |-> 0]

\* &token{Val: val, Type: type}
Token(val, type) == [NoToken EXCEPT !.Val = val, !.Type = type]

Text2Tok ==
    (<<"p","l","u","s">> :> "TokPlus")
    @@ (<<"f","o","r">> :> "TokFor")
    @@ (<<"n","e","x","t">> :> "TokNext")
    @@ (<<"n","o","w">> :> "TokNow")
    @@ (<<"f","r","o","m">> :> "TokFrom")
    @@ (<<"t","o">> :> "TokTo")
    @@ (<<"u","n","t","i","l">> :> "TokUntil")
    @@ (<<"m","o","n">> :> "TokDay")
    @@ (<<"t","u","e">> :> "TokDay")
    @@ (<<"w","e","d">> :> "TokDay")
    @@ (<<"t","h","u">> :> "TokDay")
    @@ (<<"f","r","i">> :> "TokDay")
    @@ (<<"s","a","t">> :> "TokDay")
    @@ (<<"s","u","n">> :> "TokDay")
    @@ (<<"m","o","n","d","a","y">> :> "TokDay")
    @@ (<<"t","u","e","s","d","a","y">> :> "TokDay")
    @@ (<<"w","e","d","n","e","s","d","a","y">> :> "TokDay")
    @@ (<<"t","h","u","r","s","d","a","y">> :> "TokDay")
    @@ (<<"f","r","i","d","a","y">> :> "TokDay")
    @@ (<<"s","a","t","u","r","d","a","y">> :> "TokDay")
    @@ (<<"s","u","n","d","a","y">> :> "TokDay")
    @@ (<<"j","a","n">> :> "TokMonth")
    @@ (<<"f","e","b">> :> "TokMonth")
    @@ (<<"m","a","r">> :> "TokMonth")
    @@ (<<"a","p","r">> :> "TokMonth")
    @@ (<<"m","a","y">> :> "TokMonth")
    @@ (<<"j","u","n">> :> "TokMonth")
    @@ (<<"j","u","l">> :> "TokMonth")
    @@ (<<"a","u","g">> :> "TokMonth")
    @@ (<<"s","e","p">> :> "TokMonth")
    @@ (<<"o","c","t">> :> "TokMonth")
    @@ (<<"n","o","v">> :> "TokMonth")
    @@ (<<"d","e","c">> :> "TokMonth")
    @@ (<<"j","a","n","u","a","r","y">> :> "TokMonth")
    @@ (<<"f","e","b","r","u","a","r","y">> :> "TokMonth")
    @@ (<<"m","a","r","c","h">> :> "TokMonth")
    @@ (<<"a","p","r","i","l">> :> "TokMonth")
    @@ (<<"j","u","n","e">> :> "TokMonth")
    @@ (<<"j","u","l","y">> :> "TokMonth")
    @@ (<<"a","u","g","u","s","t">> :> "TokMonth")
    @@ (<<"s","e","p","t","e","m","b","e","r">> :> "TokMonth")
    @@ (<<"o","c","t","o","b","e","r">> :> "TokMonth")
    @@ (<<"n","o","v","e","m","b","e","r">> :> "TokMonth")
    @@ (<<"d","e","c","e","m","b","e","r">> :> "TokMonth")
    @@ (<<"t","o","m","o","r","r","o","w">> :> "TokTomorrow")
    @@ (<<"n","o","o","n">> :> "TokNoon")
    @@ (<<"m","i","d","n","i","g","h","t">> :> "TokMidnight")
    @@ (<<"e","o","d">> :> "TokEOD")
    @@ (<<"a","m">> :> "TokAM")
    @@ (<<"p","m">> :> "TokPM")
    @@ (<<"h">> :> "TokRelHour")
    @@ (<<"h","o","u","r">> :> "TokRelHour")
    @@ (<<"h","o","u","r","s">> :> "TokRelHour")
    @@ (<<"d">> :> "TokRelDay")
    @@ (<<"d","a","y">> :> "TokRelDay")
    @@ (<<"d","a","y","s">> :> "TokRelDay")
    @@ (<<"w">> :> "TokRelWeek")
    @@ (<<"w","e","e","k">> :> "TokRelWeek")
    @@ (<<"w","e","e","k","s">> :> "TokRelWeek")
    @@ (<<"n","d">> :> "TokOrdinal")
    @@ (<<"r","d">> :> "TokOrdinal")
    @@ (<<"s","t">> :> "TokOrdinal")
    @@ (<<"t","h">> :> "TokOrdinal")

Days ==
    (<<"s","u","n","d","a","y">> :> 0)
    @@ (<<"s","u","n">> :> 0)
    @@ (<<"m","o","n","d","a","y">> :> 1)
    @@ (<<"m","o","n">> :> 1)
    @@ (<<"t","u","e","s","d","a","y">> :> 2)
    @@ (<<"t","u","e">> :> 2)
    @@ (<<"w","e","d","n","e","s","d","a","y">> :> 3)
    @@ (<<"w","e","d">> :> 3)
    @@ (<<"t","h","u","r","s","d","a","y">> :> 4)
    @@ (<<"t","h","u">> :> 4)
    @@ (<<"f","r","i","d","a","y">> :> 5)
    @@ (<<"f","r","i">> :> 5)
    @@ (<<"s","a","t","u","r","d","a","y">> :> 6)
    @@ (<<"s","a","t">> :> 6)

Months ==
    (<<"j","a","n","u","a","r","y">> :> 1)
    @@ (<<"j","a","n">> :> 1)
    @@ (<<"f","e","b","r","u","a","r","y">> :> 2)
    @@ (<<"f","e","b">> :> 2)
    @@ (<<"m","a","r","c","h">> :> 3)
    @@ (<<"m","a","r">> :> 3)
    @@ (<<"a","p","r","i","l">> :> 4)
    @@ (<<"a","p","r">> :> 4)
    @@ (<<"m","a","y">> :> 5)
    @@ (<<"j","u","n","e">> :> 6)
    @@ (<<"j","u","n">> :> 6)
    @@ (<<"j","u","l","y">> :> 7)
    @@ (<<"j","u","l">> :> 7)
    @@ (<<"a","u","g","u","s","t">> :> 8)
    @@ (<<"a","u","g">> :> 8)
    @@ (<<"s","e","p","t","e","m","b","e","r">> :> 9)
    @@ (<<"s","e","p">> :> 9)
    @@ (<<"o","c","t","o","b","e","r">> :> 10)
    @@ (<<"o","c","t">> :> 10)
    @@ (<<"n","o","v","e","m","b","e","r">> :> 11)
    @@ (<<"n","o","v">> :> 11)
    @@ (<<"d","e","c","e","m","b","e","r">> :> 12)
    @@ (<<"d","e","c">> :> 12)

Months31 == {1, 3, 5, 7, 8, 10, 12}

Digits == ("0" :> 0) @@ ("1" :> 1) @@ ("2" :> 2) @@ ("3" :> 3) @@ ("4" :> 4)
          @@ ("5" :> 5) @@ ("6" :> 6) @@ ("7" :> 7) @@ ("8" :> 8) @@ ("9" :> 9)

IsDigits(s) == \A i \in 1..Len(s) : s[i] \in DOMAIN Digits

RECURSIVE DecimalValue(_)
DecimalValue(s) ==
    IF s = <<>> THEN 0
    ELSE 10 * DecimalValue(SubSeq(s, 1, Len(s) - 1)) + Digits[s[Len(s)]]

\* n, _ := strconv.Atoi(s): the value of a decimal numeral, 0 when s is none.
Atoi(s) == IF s # <<>> /\ IsDigits(s) THEN DecimalValue(s) ELSE 0

\* strings.Split(s, sep) for a one-character separator.
RECURSIVE Split(_, _)
Split(s, sep) ==
    IF \E i \in 1..Len(s) : s[i] = sep
    THEN LET i == CHOOSE k \in 1..Len(s) :
                      s[k] = sep /\ \A j \in 1..(k - 1) : s[j] # sep
         IN  <<SubSeq(s, 1, i - 1)>> \o Split(SubSeq(s, i + 1, Len(s)), sep)
    ELSE <<s>>

\* regexp `^[0-9]{4}-[0-9]{2}-[0-9]{2}$`
ValidDateFormat(s) ==
    /\ Len(s) = 10
    /\ \A i \in {1, 2, 3, 4, 6, 7, 9, 10} : s[i] \in DOMAIN Digits
    /\ s[5] = "-"
    /\ s[8] = "-"

(***************************************************************************)
(* Errors.  kind is the flag a ParseError carries ("endOfInput",           *)
(* "notFound", "invalid", "dateInvalid"), or "error" for an error that is  *)
(* no *ParseError (fmt.Errorf, package time); token is the attached token  *)
(* (NoToken for nil); arg holds the values formatted into the message.     *)
(***************************************************************************)
NoErr == [msg |-> "", kind |-> "nil", token |-> NoToken, arg |-> <<>>]

ParseError(msg, kind, token, arg) ==
    [msg |-> msg, kind |-> kind, token |-> token, arg |-> arg]

\* fmt.Errorf(...)
Errorf(msg, arg) == [msg |-> msg, kind |-> "error", token |-> NoToken, arg |-> arg]

dateValid(t) ==
    IF t.Month = 0 THEN ParseError("month is zero", "dateInvalid", t, <<>>)
    ELSE IF t.Month > 12 THEN ParseError("month too large", "dateInvalid", t, <<>>)
    ELSE IF t.Day = 0 THEN ParseError("day is zero", "dateInvalid", t, <<>>)
    ELSE IF t.Month = 2 /\ isLeapYear(t.Year) /\ t.Day > 29
         THEN ParseError("day too large", "dateInvalid", t, <<>>)
    ELSE IF t.Month = 2 /\ ~isLeapYear(t.Year) /\ t.Day > 28
         THEN ParseError("day too large", "dateInvalid", t, <<>>)
    ELSE IF \/ (t.Month \in Months31 /\ t.Day > 31)
            \/ (t.Month \notin Months31 /\ t.Day > 30)
         THEN ParseError("day too large", "dateInvalid", t, <<>>)
    ELSE NoErr

(***************************************************************************)
(* type fifo (lines 363-458).  A fifo is [tokens, count].                  *)
(***************************************************************************)
NewFifo == [tokens |-> <<>>, count |-> 0]

\* What Push makes of the token before appending it: [tok, err].
Classify(tok) ==
    CASE tok.Type = "TokText" ->
           IF tok.Val \in DOMAIN Text2Tok
           THEN LET t == Text2Tok[tok.Val] IN
                CASE t = "TokNoon" ->
                       [tok |-> [tok EXCEPT !.Type = "TokTime", !.Hour = 12, !.Minute = 0],
                        err |-> NoErr]
                  [] t = "TokMidnight" ->
                       [tok |-> [tok EXCEPT !.Type = "TokTime", !.Hour = 0, !.Minute = 0],
                        err |-> NoErr]
                  [] t = "TokEOD" ->
                       [tok |-> [tok EXCEPT !.Type = "TokTime", !.Hour = 17, !.Minute = 0],
                        err |-> NoErr]
                  [] OTHER -> [tok |-> [tok EXCEPT !.Type = t], err |-> NoErr]
           ELSE [tok |-> tok, err |-> NoErr]
      [] tok.Type = "TokNumber" ->
           [tok |-> [tok EXCEPT !.Num = Atoi(tok.Val)], err |-> NoErr]
      [] tok.Type = "TokTime" ->
           LET p == Split(tok.Val, ":") IN
           [tok |-> [tok EXCEPT !.Hour = Atoi(p[1]), !.Minute = Atoi(p[2])],
            err |-> NoErr]
      [] tok.Type = "TokDate" ->
           IF ~ValidDateFormat(tok.Val)
           THEN [tok |-> tok, err |-> Errorf("invalid date format", tok.Val)]
           ELSE LET p == Split(tok.Val, "-")
                    d == [tok EXCEPT !.Year = Atoi(p[1]), !.Month = Atoi(p[2]),
                                     !.Day = Atoi(p[3])]
                IN  IF dateValid(d) # NoErr
                    THEN [tok |-> d, err |-> Errorf("invalid date", tok.Val)]
                    ELSE [tok |-> d, err |-> NoErr]
      [] OTHER -> [tok |-> tok, err |-> NoErr]

\* Push with the position taken before the counter is advanced.
PushClassified_ZeroBased(s, tok, c) ==
    IF c.err # NoErr THEN [fifo |-> s, err |-> c.err]
    ELSE IF tok.Type = "TokNone" THEN [fifo |-> s, err |-> NoErr]
    ELSE [fifo |-> [tokens |-> Append(s.tokens, [c.tok EXCEPT !.count = s.count]),
                    count  |-> s.count + 1],
          err |-> NoErr]

\* s.Push(tok): [fifo, err]; c is the token as the switch leaves it.
PushClassified(s, tok, c) ==
    IF c.err # NoErr THEN [fifo |-> s, err |-> c.err]
    ELSE IF tok.Type = "TokNone" THEN [fifo |-> s, err |-> NoErr]
    ELSE [fifo |-> [tokens |-> Append(s.tokens, [c.tok EXCEPT !.count = s.count + 1]),
                    count  |-> s.count + 1],
          err |-> NoErr]

Push(s, tok) == PushClassified(s, tok, Classify(tok))

EndOfInput == ParseError("end of input", "endOfInput", NoToken, <<>>)

\* s.Pop() that hands out the first token and leaves it in the queue
Pop_Kept(q) ==
    IF Len(q) = 0 THEN [tok |-> NoToken, tokens |-> q, err |-> EndOfInput]
    ELSE [tok |-> Head(q), tokens |-> q, err |-> NoErr]

\* s.Pop(): [tok, tokens, err], on the queue's token sequence
Pop(q) ==
    IF Len(q) = 0 THEN [tok |-> NoToken, tokens |-> q, err |-> EndOfInput]
    ELSE [tok |-> Head(q), tokens |-> Tail(q), err |-> NoErr]

\* s.Peek(): [tok, err]
Peek(q) ==
    IF Len(q) = 0 THEN [tok |-> NoToken, err |-> EndOfInput]
    ELSE [tok |-> Head(q), err |-> NoErr]

\* s.GetToken(toktype): [tok, tokens, err]; p is what s.Peek() returned.
GetTokenPeeked(p, q, toktype) ==
    IF p.err # NoErr THEN [tok |-> NoToken, tokens |-> q, err |-> p.err]
    ELSE IF p.tok.Type # toktype
    THEN [tok |-> p.tok, tokens |-> q,
          err |-> ParseError("not found", "notFound", NoToken, <<>>)]
    ELSE [tok |-> p.tok, tokens |-> Pop(q).tokens, err |-> NoErr]

GetToken(q, toktype) == GetTokenPeeked(Peek(q), q, toktype)

(***************************************************************************)
(* tokenize (lines 460-556).  A phrase is the caller's list of words, each *)
(* a sequence of characters.                                               *)
(***************************************************************************)
UpperCase ==
    ("A" :> "a") @@ ("B" :> "b") @@ ("C" :> "c") @@ ("D" :> "d") @@ ("E" :> "e") @@ ("F" :> "f")
    @@ ("G" :> "g") @@ ("H" :> "h") @@ ("I" :> "i") @@ ("J" :> "j") @@ ("K" :> "k") @@ ("L" :> "l")
    @@ ("M" :> "m") @@ ("N" :> "n") @@ ("O" :> "o") @@ ("P" :> "p") @@ ("Q" :> "q") @@ ("R" :> "r")
    @@ ("S" :> "s") @@ ("T" :> "t") @@ ("U" :> "u") @@ ("V" :> "v") @@ ("W" :> "w") @@ ("X" :> "x")
    @@ ("Y" :> "y") @@ ("Z" :> "z")

\* strings.ToLower
ToLower(s) ==
    [i \in 1..Len(s) |-> IF s[i] \in DOMAIN UpperCase THEN UpperCase[s[i]] ELSE s[i]]

\* strings.Join(a, " ")
RECURSIVE Join(_)
Join(a) ==
    IF a = <<>> THEN <<>>
    ELSE IF Len(a) = 1 THEN a[1]
    ELSE a[1] \o <<" ">> \o Join(Tail(a))

\* unicode.IsLetter and unicode.IsDigit, on the characters left by ToLower
Letters ==
    { "a", "b", "c", "d", "e", "f", "g", "h", "i", "j", "k", "l", "m",
      "n", "o", "p", "q", "r", "s", "t", "u", "v", "w", "x", "y", "z" }

IsLetter(r) == r \in Letters

IsDigit(r) == r \in DOMAIN Digits

\* lines 485-531: the rune r is added to the open token
Continues(tok, r) ==
    CASE tok.Type = "TokText"   -> IsLetter(r) \/ r = "-"
      [] tok.Type = "TokNumber" -> IsDigit(r) \/ r = ":" \/ r = "-"
      [] tok.Type = "TokDate"   -> IsDigit(r) \/ r = "-"
      [] tok.Type = "TokTime"   -> IsDigit(r)
      [] OTHER -> FALSE

\* the open token with r added: `-` promotes it to a date, `:` to a time
\* The open token with r appended, a `-` leaving its type as it is.
Extended_NoDate(tok, r) ==
    [tok EXCEPT !.Val = Append(@, r), !.Type = IF r = ":" THEN "TokTime" ELSE @]

Extended(tok, r) ==
    [tok EXCEPT !.Val = Append(@, r),
                !.Type = IF r = "-" THEN "TokDate"
                         ELSE IF r = ":" THEN "TokTime" ELSE @]

\* lines 537-550: the runes that open a token, and the token opened
Opens(r) == IsLetter(r) \/ IsDigit(r) \/ r = "+" \/ r = " "

\* The token opened without the rune that opens it.
Opened_Blank(r) ==
    CASE IsLetter(r) -> Token(<<>>, "TokText")
      [] IsDigit(r)  -> Token(<<>>, "TokNumber")
      [] r = "+"     -> Token(<<>>, "TokPlus")
      [] OTHER       -> Token(<<>>, "TokNone")

Opened(r) ==
    CASE IsLetter(r) -> Token(<<r>>, "TokText")
      [] IsDigit(r)  -> Token(<<r>>, "TokNumber")
      [] r = "+"     -> Token(<<r>>, "TokPlus")
      [] OTHER       -> Token(<<>>, "TokNone")

RECURSIVE Scan(_, _, _)
\* lines 533-552, on what tokens.Push(tok) returned: [fifo, err]
Pushed(p, r, rest) ==
    IF p.err # NoErr THEN p
    ELSE IF ~Opens(r) THEN [fifo |-> p.fifo, err |-> Errorf("malformed value", <<r>>)]
    ELSE Scan(p.fifo, Opened(r), rest)

\* The loop of lines 467-553: s is the queue, tok the open token and rest
\* the runes still to read; q, t and r are their values as the iteration
\* begins.  [fifo, err]
Scan(s, tok, rest) ==
    CHOOSE result \in { IF r = <<>> THEN Push(q, t)
                        ELSE IF Continues(t, Head(r))
                        THEN Scan(q, Extended(t, Head(r)), Tail(r))
                        ELSE Pushed(Push(q, t), Head(r), Tail(r))
                        : q \in {s}, t \in {tok}, r \in {rest} } : TRUE

tokenize(a) == Scan(NewFifo, Token(<<>>, "TokNone"), ToLower(Join(a)))

isRelative(tok) == tok.Type \in {"TokRelHour", "TokRelDay", "TokRelWeek"}

(***************************************************************************)
(* type Time (lines 635-833): the absolute time builder.  A builder is the *)
(* instant it wraps.                                                       *)
(***************************************************************************)
NewTime(base) ==
    GoDate(GoYear(base), GoMonth(base), GoDay(base), GoHourOf(base), GoMinuteOf(base), 0)

Time_Year(t, year) ==
    GoDate(year, GoMonth(t), GoDay(t), GoHourOf(t), GoMinuteOf(t), 0)

Time_Month(t, month) ==
    GoDate(GoYear(t), month, GoDay(t), GoHourOf(t), GoMinuteOf(t), 0)

Time_Day(t, day) ==
    GoDate(GoYear(t), GoMonth(t), day, GoHourOf(t), GoMinuteOf(t), 0)

Time_Hour(t, hour) ==
    GoDate(GoYear(t), GoMonth(t), GoDay(t), hour, GoMinuteOf(t), 0)

Time_Minute(t, minute) ==
    GoDate(GoYear(t), GoMonth(t), GoDay(t), GoHourOf(t), minute, 0)

Time_Tomorrow(t) == GoAddDays(t, 1)

Time_AddDays(t, days) == GoAddDays(t, days)

roundUp(val) == GoRound(val + 14 * Duration.Minute, 30 * Duration.Minute)

\* AddMinutes with the rounding to the nearest half hour kept as it falls.
Time_AddMinutes_Nearest(t, d) == GoRound(t + d, 30 * Duration.Minute)

Time_AddMinutes(t, d) ==
    LET ts == GoRound(t + d, 30 * Duration.Minute) IN
    IF ts - t < d THEN roundUp(t + d) ELSE ts

\* AddHours with the sum rounded to the nearest half hour.
Time_AddHours_Nearest(t, hours) ==
    GoRound(t + hours * Duration.Hour, 30 * Duration.Minute)

Time_AddHours(t, hours) ==
    LET d  == hours * Duration.Hour
        ts == t + d
    IN  roundUp(IF ts - t < d THEN ts + d ELSE ts)

\* t.ParsePM(tokens): [t, tokens, err]; am and pm are what GetToken(TokAM)
\* and GetToken(TokPM) returned.
ParsePMTokens(t, q, am, pm) ==
    IF am.err = NoErr THEN [t |-> t, tokens |-> am.tokens, err |-> NoErr]
    ELSE IF pm.err = NoErr
    THEN IF GoHourOf(t) >= 12
         THEN [t |-> t, tokens |-> pm.tokens,
               err |-> ParseError("time out of range", "invalid", pm.tok,
                                  <<GoHourOf(t), GoMinuteOf(t)>>)]
         ELSE [t |-> t + 12 * Duration.Hour, tokens |-> pm.tokens, err |-> NoErr]
    ELSE [t |-> t, tokens |-> q, err |-> NoErr]

Time_ParsePM(t, q) == ParsePMTokens(t, q, GetToken(q, "TokAM"), GetToken(q, "TokPM"))

\* lines 792-796: the builder stays at t1 whether or not ParsePM fails.
ParseSuffix(t1, r) ==
    IF r.err # NoErr THEN [t |-> t1, tokens |-> r.tokens, err |-> r.err] ELSE r

ParseSuffixAt(t1, q) == ParseSuffix(t1, Time_ParsePM(t1, q))

\* lines 775-796, on the builder t0 and the peeked token ts
ParseTimeOfDay(t0, ts, q, timeOnly) ==
    IF ts.Type = "TokTime"
    THEN ParseSuffixAt(Time_Minute(Time_Hour(t0, ts.Hour), ts.Minute), Pop(q).tokens)
    ELSE IF ~timeOnly /\ ts.Type = "TokNumber"
    THEN ParseSuffixAt(Time_Minute(Time_Hour(t0, ts.Num), 0), Pop(q).tokens)
    ELSE [t |-> t0, tokens |-> q,
          err |-> ParseError("expected time", "invalid", ts, ts.Val)]

\* t.Parse(tokens, timeOnly): [t, tokens, err]; p is what tokens.Peek()
\* returned.
ParsePeeked(t, p, q, timeOnly) ==
    IF p.err # NoErr THEN [t |-> t, tokens |-> q, err |-> p.err]
    ELSE ParseTimeOfDay(NewTime(t), p.tok, q, timeOnly)

Time_Parse(t, q, timeOnly) == ParsePeeked(t, Peek(q), q, timeOnly)

\* The duration with every unit counted as hours.
DurationOf_Hours(num, p) ==
    LET rel == IF p.err # NoErr THEN Token(<<"h","o","u","r","s">>, "TokRelHour")
               ELSE p.tok
        q2  == IF p.err = NoErr THEN Tail(num.tokens) ELSE num.tokens
    IN  IF num.err.kind = "notFound"
        THEN [d |-> 0, tokens |-> num.tokens,
              err |-> ParseError("expect numeric value in duration", "invalid",
                                 num.tok, <<>>)]
        ELSE IF num.err.kind = "endOfInput"
        THEN [d |-> 0, tokens |-> num.tokens,
              err |-> ParseError("expect duration", "endOfInput", NoToken, <<>>)]
        ELSE IF ~isRelative(rel)
        THEN [d |-> 0, tokens |-> q2,
              err |-> ParseError("invalid duration qualifier", "invalid", rel, rel.Val)]
        ELSE [d |-> num.tok.Num * Duration.Hour, tokens |-> q2, err |-> NoErr]

\* lines 577-632, on the results of GetToken(TokNumber) and of the Peek
\* for the unit.
DurationOf(num, p) ==
    LET rel == IF p.err # NoErr THEN Token(<<"h","o","u","r","s">>, "TokRelHour")
               ELSE p.tok
        q2  == IF p.err = NoErr THEN Tail(num.tokens) ELSE num.tokens
        dur == CASE rel.Type = "TokRelHour" -> num.tok.Num
                 [] rel.Type = "TokRelDay"  -> 24 * num.tok.Num
                 [] rel.Type = "TokRelWeek" -> 24 * 7 * num.tok.Num
                 [] OTHER -> 0
    IN  IF num.err.kind = "notFound"
        THEN [d |-> 0, tokens |-> num.tokens,
              err |-> ParseError("expect numeric value in duration", "invalid",
                                 num.tok, <<>>)]
        ELSE IF num.err.kind = "endOfInput"
        THEN [d |-> 0, tokens |-> num.tokens,
              err |-> ParseError("expect duration", "endOfInput", NoToken, <<>>)]
        ELSE IF ~isRelative(rel)
        THEN [d |-> 0, tokens |-> q2,
              err |-> ParseError("invalid duration qualifier", "invalid", rel, rel.Val)]
        ELSE [d |-> dur * Duration.Hour, tokens |-> q2, err |-> NoErr]

DurationAfter(num) == DurationOf(num, Peek(num.tokens))

\* parseRelativeDuration(tokens): [d, tokens, err]
parseRelativeDuration(q) == DurationAfter(GetToken(q, "TokNumber"))

\* time.Parse("2006-01-02 15:04:05.000000000", "%d-%02d-%02d ...") succeeds
\* when the year prints as four digits and the day is a day of the month.
TimeParseOK(year, month, day) ==
    /\ year \in 1000..9999
    /\ month \in 1..12
    /\ day \in 1..DaysIn(month, year)

(***************************************************************************)
(* parseTimeSpec (lines 835-1023).                                         *)
(***************************************************************************)
\* The distance with the anchor's own weekday a week away.
DayDistance_NextWeek(day, today) ==
    LET d == IF day <= today THEN day + 7 ELSE day IN d - today

\* lines 867-874: the forward distance in days from weekday today to day.
DayDistance(day, today) ==
    LET d == IF day < today THEN day + 7 ELSE day IN d - today

\* The anchor's year whatever the month named.
MonthYear_SameYear(month, st) == GoYear(st)

\* lines 889-894: the year of a month name given without a year.
MonthYear(month, st) ==
    IF month < GoMonth(st) THEN GoYear(st) + 1 ELSE GoYear(st)

\* lines 955-960 and 983-988: a trailing `tomorrow` moves the builder to the
\* day after now, one field setter after the other.
TomorrowOfNow(ts, nw) ==
    Time_Tomorrow(Time_Day(Time_Month(Time_Year(ts, GoYear(nw)), GoMonth(nw)), GoDay(nw)))

\* One result of the loop body: the builder, the queue, the error returned
\* (NoErr for none) and whether the loop was left (break loop).
Iter(ts, q, err, brk) == [timespec |-> ts, tokens |-> q, err |-> err, brk |-> brk]

\* return nil, err
Fail(q, err) == Iter(NilTime, q, err, TRUE)

\* lines 855-863, on what timespec.Parse returned
TomorrowParsed(r) ==
    IF r.err # NoErr /\ r.err.kind # "endOfInput" THEN Fail(r.tokens, r.err)
    ELSE Iter(Time_Tomorrow(r.t), r.tokens, NoErr, TRUE)

\* case TokTomorrow, lines 849-863
CaseTomorrow(nw, tspec, q) ==
    TomorrowParsed(Time_Parse(IF tspec = NilTime THEN NewTime(nw) ELSE tspec, q, FALSE))

\* lines 878-884, on what timespec.Parse returned
DayParsed(r) ==
    IF r.err # NoErr /\ r.err.kind # "endOfInput" THEN Fail(r.tokens, r.err)
    ELSE Iter(r.t, r.tokens, NoErr, TRUE)

\* case TokDay, lines 865-884
CaseDay(t, st, q) ==
    DayParsed(Time_Parse(Time_AddDays(NewTime(st), DayDistance(Days[t.Val], GoWeekday(st))),
                         q, FALSE))

\* lines 913-924, on what timespec.Parse and GetToken(TokNumber) returned
MonthYearGiven(r, yr) ==
    IF yr.err # NoErr THEN Iter(r.t, r.tokens, NoErr, TRUE)
    ELSE IF Len(yr.tok.Val) < 4
    THEN Fail(yr.tokens,
              ParseError("year needs to be four digits", "invalid", yr.tok, <<>>))
    ELSE Iter(Time_Year(r.t, yr.tok.Num), yr.tokens, NoErr, TRUE)

\* lines 909-924, on what timespec.Parse returned
MonthParsed(r) ==
    IF r.err # NoErr THEN Fail(r.tokens, r.err)
    ELSE MonthYearGiven(r, GetToken(r.tokens, "TokNumber"))

\* lines 896-924, on what GetToken(TokNumber) returned for the day and on
\* what GetToken(TokOrdinal) left of the queue
MonthDay(year, month, st, tn, q) ==
    IF tn.err # NoErr THEN Fail(tn.tokens, tn.err)
    ELSE IF ~TimeParseOK(year, month, tn.tok.Num)
    THEN Fail(tn.tokens, Errorf("parsing time", <<year, month, tn.tok.Num>>))
    ELSE MonthParsed(Time_Parse(NewTime(GoDate(year, month, tn.tok.Num, GoHourOf(st),
                                               GoMinuteOf(st), GoSecondOf(st))),
                                q, TRUE))

MonthOrdinal(year, month, st, tn) ==
    MonthDay(year, month, st, tn, GetToken(tn.tokens, "TokOrdinal").tokens)

\* case TokMonth, lines 886-924
CaseMonth(t, st, q) ==
    MonthOrdinal(MonthYear(Months[t.Val], st), Months[t.Val], st, GetToken(q, "TokNumber"))

\* A date that has to be followed by a time of day.
DateParsed_TimeRequired(r) ==
    IF r.err # NoErr THEN Fail(r.tokens, r.err) ELSE Iter(r.t, r.tokens, NoErr, TRUE)

\* lines 935-945, on what timespec.Parse returned
DateParsed(r) ==
    IF r.err = NoErr THEN Iter(r.t, r.tokens, NoErr, TRUE)
    ELSE IF r.err.kind = "endOfInput" THEN Iter(r.t, r.tokens, NoErr, TRUE)
    ELSE IF r.err.msg = "expected time" THEN Iter(r.t, r.tokens, NoErr, TRUE)
    ELSE Fail(r.tokens, r.err)

\* case TokDate, lines 926-945
CaseDate(t, st, q) ==
    IF ~TimeParseOK(t.Year, t.Month, t.Day)
    THEN Fail(q, Errorf("parsing time", <<t.Year, t.Month, t.Day>>))
    ELSE DateParsed(Time_Parse(NewTime(GoDate(t.Year, t.Month, t.Day, GoHourOf(st),
                                              GoMinuteOf(st), GoSecondOf(st))),
                               q, FALSE))

\* lines 955-962 and 983-990, on what tokens.GetToken(TokTomorrow) returned
TrailingTomorrow(r, nw, g) ==
    IF g.err = NoErr THEN Iter(TomorrowOfNow(r.t, nw), g.tokens, NoErr, TRUE)
    ELSE Iter(r.t, r.tokens, NoErr, TRUE)

\* lines 951-962 and 978-990, on what timespec.ParsePM returned
TimeOfDayParsed(r, nw) ==
    IF r.err # NoErr THEN Fail(r.tokens, r.err)
    ELSE TrailingTomorrow(r, nw, GetToken(r.tokens, "TokTomorrow"))

\* case TokTime with the move to the day after now made whether or not a
\* `tomorrow` follows.
CaseTime_AlwaysTomorrow(t, nw, st, q) ==
    TimeOfDayParsed(Time_ParsePM(TomorrowOfNow(Time_Minute(Time_Hour(NewTime(st), t.Hour),
                                                           t.Minute), nw), q),
                    nw)

\* case TokTime, lines 947-962
CaseTime(t, nw, st, q) ==
    TimeOfDayParsed(Time_ParsePM(Time_Minute(Time_Hour(NewTime(st), t.Hour), t.Minute), q),
                    nw)

\* case TokNumber with the number read as an hour of the day wherever it
\* stands.
CaseNumber_HourOfDay(t, nw, st, q) ==
    TimeOfDayParsed(Time_ParsePM(Time_Minute(Time_Hour(NewTime(st), t.Num), 0), q), nw)

\* case TokNumber, lines 964-990
CaseNumber(t, nw, st, q) ==
    IF Peek(q).err.kind = "endOfInput"
    THEN Iter(Time_AddHours(NewTime(st), t.Num), q, NoErr, TRUE)
    ELSE TimeOfDayParsed(Time_ParsePM(Time_Minute(Time_Hour(NewTime(st), t.Num), 0), q), nw)

\* lines 1000-1007, on what parseRelativeDuration returned
DurationAdded(base, d) ==
    IF d.err # NoErr THEN Fail(d.tokens, d.err)
    ELSE Iter(Time_AddMinutes(base, d.d), d.tokens, NoErr, TRUE)

\* case TokFor, TokPlus, lines 992-1007
CasePlus(tspec, st, q) ==
    DurationAdded(IF tspec = NilTime THEN NewTime(st) ELSE tspec, parseRelativeDuration(q))

\* lines 845-1015: the switch on the popped token t
SwitchType(t, nw, st, tspec, q) ==
    CASE t.Type = "TokNow"      -> Iter(NewTime(st), q, NoErr, FALSE)
      [] t.Type = "TokTomorrow" -> CaseTomorrow(nw, tspec, q)
      [] t.Type = "TokDay"      -> CaseDay(t, st, q)
      [] t.Type = "TokMonth"    -> CaseMonth(t, st, q)
      [] t.Type = "TokDate"     -> CaseDate(t, st, q)
      [] t.Type = "TokTime"     -> CaseTime(t, nw, st, q)
      [] t.Type = "TokNumber"   -> CaseNumber(t, nw, st, q)
      [] t.Type \in {"TokFor", "TokPlus"} -> CasePlus(tspec, st, q)
      [] OTHER ->
           Fail(q, ParseError("unknown date/time value", "invalid", t, t.Val))

\* One iteration of the loop of parseTimeSpec(now, start, tokens).
\* p is what tokens.Pop() returned.
IterPopped(p, nw, st, tspec) ==
    IF p.err # NoErr THEN Fail(p.tokens, p.err)
    ELSE SwitchType(p.tok, nw, st, tspec, p.tokens)

ParseTimeSpecIter(nw, st, tspec, q) == IterPopped(Pop(q), nw, st, tspec)

(***************************************************************************)
(* The inputs: the reference instants and the phrases the calls are made   *)
(* with.  A phrase is a list of words.                                     *)
(***************************************************************************)
Vocabulary ==
    { <<"f","r","o","m">>,
      <<"t","o">>,
      <<"+">>,
      <<"t","o","m","o","r","r","o","w">>,
      <<"f","r","i","d","a","y">>,
      <<"p","m">>,
      <<"1">>,
      <<"9",":","3","0">>,
      <<"2","3",":","7","5">>,
      <<"2","0","1","7","-","0","5","-","3","1">> }

\* Saturday 2017-04-01 11:00:30
Nows == { GoDate(2017, 4, 1, 11, 0, 30) }

NoReturn == [line |-> 0, start |-> ZeroTime, end |-> ZeroTime, err |-> NoErr]

Return(line, s, e, err) == [line |-> line, start |-> s, end |-> e, err |-> err]

\* The parser runs in the client program: no reservation server takes part
\* in a call of ParseRange or ParseDuration.
NoServer ==
    /\ memory = [nextID |-> 0, reservations |-> <<>>]
    /\ file = <<>>
    /\ clock = 0
    /\ client = <<>>

Init ==
    /\ now \in Nows
    /\ \E n \in 0..MaxLen : args \in [1..n -> Vocabulary]
    /\ op = "none"
    /\ pc = "call"
    /\ tokens = <<>>
    /\ lead = NoToken
    /\ anchor = ZeroTime
    /\ timespec = NilTime
    /\ tsret = [t |-> NilTime, err |-> NoErr]
    /\ start = ZeroTime
    /\ ret = NoReturn
    /\ NoServer

(***************************************************************************)
(* ParseRange (lines 1025-1115).                                           *)
(***************************************************************************)
\* lines 1032-1035: the call and the lexing
ParseRangeCall ==
    /\ pc = "call"
    /\ op' = "ParseRange"
    /\ \E r \in {tokenize(args)} :
       IF r.err # NoErr
       THEN /\ ret' = Return(1034, ZeroTime, ZeroTime, Errorf(r.err.msg, r.err.arg))
            /\ pc' = "done"
            /\ UNCHANGED tokens
       ELSE /\ tokens' = r.fifo.tokens
            /\ pc' = "again"
            /\ UNCHANGED ret
    /\ UNCHANGED <<now, args, lead, anchor, timespec, tsret, start>>
    /\ UNCHANGED storevars

\* lines 1037-1053: one pass from label again to the first parseTimeSpec call
RangeAgain ==
    /\ pc = "again"
    /\ LET p == Peek(tokens) IN
       IF p.err # NoErr
       THEN /\ ret' = Return(1040, ZeroTime, ZeroTime,
                             Errorf("insufficient timespec in arguments", <<>>))
            /\ pc' = "done"
            /\ UNCHANGED <<tokens, lead, anchor, timespec>>
       ELSE IF p.tok.Type = "TokFrom"
       THEN /\ tokens' = Pop(tokens).tokens
            /\ lead' = p.tok
            /\ UNCHANGED <<pc, ret, anchor, timespec>>
       ELSE /\ lead' = p.tok
            /\ tokens' = IF p.tok.Type \in {"TokUntil", "TokTo"}
                         THEN Pop(tokens).tokens ELSE tokens
            /\ anchor' = now
            /\ timespec' = NilTime
            /\ pc' = "spec1"
            /\ UNCHANGED ret
    /\ UNCHANGED <<now, args, op, tsret, start>>
    /\ UNCHANGED storevars

\* Where a parseTimeSpec call returns to.
ReturnTo(p) ==
    CASE p = "spec1" -> "first" [] p = "spec2" -> "second" [] p = "dspec" -> "dfinish"

\* One iteration of the loop of parseTimeSpec, lines 839-1016, and its
\* return (line 1022, or return nil, err) when the loop is left.
TimeSpecStep ==
    /\ pc \in {"spec1", "spec2", "dspec"}
    /\ \E r \in {ParseTimeSpecIter(now, anchor, timespec, tokens)} :
       /\ tokens' = r.tokens
       /\ timespec' = r.timespec
       /\ IF r.brk
          THEN /\ tsret' = [t |-> r.timespec, err |-> r.err]
               /\ pc' = ReturnTo(pc)
          ELSE UNCHANGED <<tsret, pc>>
    /\ UNCHANGED <<now, args, op, lead, anchor, start, ret>>
    /\ UNCHANGED storevars

\* The tests of ParseRange with one outcome only.
StartInPast_Never(ts, nw) == FALSE

DurationMode_PlusOnly(t) == t.Type = "TokPlus"

IsSeparator_Any(t) == TRUE

ExtraArguments_Never(q) == FALSE

EndBeforeStart_Never(end, st) == FALSE

\* lines 1060 and 1144: timespec.Before(now)
StartInPast(ts, nw) == ts < nw

\* line 1064
DurationMode(t) == t.Type = "TokPlus" \/ t.Type = "TokUntil" \/ t.Type = "TokTo"

\* A lone timespec refused for want of a separator.
SingleReturn_MissingSeparator(nw, ts) ==
    Return(1083, ts, ZeroTime, Errorf("missing separator between start and end", <<>>))

\* line 1070
SingleReturn(nw, ts) == Return(1070, nw, ts, NoErr)

\* lines 1075-1082: var separators, and the lookup
IsSeparator(t) == t.Type \in {"TokUntil", "TokTo", "TokPlus", "TokFor"}

\* line 1095: a token is left in the queue
ExtraArguments(q) == Peek(q).err = NoErr

\* line 1110: end.Before(start)
EndBeforeStart(end, st) == end < st

\* lines 1054-1090: from the return of the first parseTimeSpec call to the
\* second call
RangeFirst ==
    /\ pc = "first"
    /\ LET p == Peek(tokens) IN
       IF tsret.err # NoErr
       THEN /\ ret' = Return(1055, ZeroTime, ZeroTime, tsret.err)
            /\ pc' = "done"
            /\ UNCHANGED <<tokens, lead, anchor, timespec, start>>
       ELSE IF StartInPast(tsret.t, now)
       THEN /\ ret' = Return(1061, tsret.t, ZeroTime, Errorf("start is in the past", <<>>))
            /\ pc' = "done"
            /\ UNCHANGED <<tokens, lead, anchor, timespec, start>>
       ELSE IF DurationMode(lead)
       THEN /\ ret' = Return(1065, now, tsret.t, NoErr)
            /\ pc' = "done"
            /\ UNCHANGED <<tokens, lead, anchor, timespec, start>>
       ELSE IF p.err # NoErr
       THEN /\ ret' = SingleReturn(now, tsret.t)
            /\ pc' = "done"
            /\ lead' = p.tok
            /\ UNCHANGED <<tokens, anchor, timespec, start>>
       ELSE IF ~IsSeparator(p.tok)
       THEN /\ ret' = Return(1083, tsret.t, ZeroTime,
                             Errorf("missing separator between start and end", <<>>))
            /\ pc' = "done"
            /\ lead' = p.tok
            /\ start' = tsret.t
            /\ UNCHANGED <<tokens, anchor, timespec>>
       ELSE /\ lead' = p.tok
            /\ start' = tsret.t
            /\ tokens' = IF p.tok.Type \in {"TokPlus", "TokFor"}
                         THEN tokens ELSE Pop(tokens).tokens
            /\ anchor' = tsret.t
            /\ timespec' = NilTime
            /\ pc' = "spec2"
            /\ UNCHANGED ret
    /\ UNCHANGED <<now, args, op, tsret>>
    /\ UNCHANGED storevars

\* lines 1091-1114: from the return of the second parseTimeSpec call on
RangeSecond ==
    /\ pc = "second"
    /\ LET p   == Peek(tokens)
           end == GoRound(tsret.t, Duration.Minute)
       IN  ret' = IF tsret.err # NoErr THEN Return(1092, start, ZeroTime, tsret.err)
                  ELSE IF ExtraArguments(tokens)
                  THEN Return(1096, start, ZeroTime,
                              ParseError("extra arguments beyond timespec", "invalid",
                                         p.tok, <<>>))
                  ELSE IF EndBeforeStart(end, start)
                  THEN Return(1111, start, end, Errorf("end before start", <<>>))
                  ELSE Return(1114, start, end, NoErr)
    /\ pc' = "done"
    /\ UNCHANGED <<now, args, op, tokens, lead, anchor, timespec, tsret, start>>
    /\ UNCHANGED storevars

(***************************************************************************)
(* ParseDuration (lines 1117-1149).                                        *)
(***************************************************************************)
\* lines 1120-1137: the call, the lexing and the leading until/to
ParseDurationCall ==
    /\ pc = "call"
    /\ op' = "ParseDuration"
    /\ \E r \in {tokenize(args)} :
       LET p == Peek(r.fifo.tokens)
       IN  IF r.err # NoErr
           THEN /\ ret' = Return(1122, ZeroTime, ZeroTime, Errorf(r.err.msg, r.err.arg))
                /\ pc' = "done"
                /\ UNCHANGED <<tokens, lead, anchor>>
           ELSE IF p.err # NoErr
           THEN /\ ret' = Return(1127, ZeroTime, ZeroTime,
                                 Errorf("insufficient timespec in arguments", <<>>))
                /\ tokens' = r.fifo.tokens
                /\ pc' = "done"
                /\ UNCHANGED <<lead, anchor>>
           ELSE /\ lead' = p.tok
                /\ tokens' = IF p.tok.Type \in {"TokUntil", "TokTo"}
                             THEN Pop(r.fifo.tokens).tokens ELSE r.fifo.tokens
                /\ anchor' = now
                /\ pc' = "dspec"
                /\ UNCHANGED ret
    /\ UNCHANGED <<now, args, timespec, tsret, start>>
    /\ UNCHANGED storevars

\* lines 1138-1148
DurationFinish ==
    /\ pc = "dfinish"
    /\ ret' = IF tsret.err # NoErr THEN Return(1139, ZeroTime, ZeroTime, tsret.err)
              ELSE IF StartInPast(tsret.t, now)
              THEN Return(1145, ZeroTime, tsret.t, Errorf("start is in the past", <<>>))
              ELSE Return(1148, ZeroTime, tsret.t, NoErr)
    /\ pc' = "done"
    /\ UNCHANGED <<now, args, op, tokens, lead, anchor, timespec, tsret, start>>
    /\ UNCHANGED storevars

Next ==
    \/ ParseRangeCall
    \/ RangeAgain
    \/ TimeSpecStep
    \/ RangeFirst
    \/ RangeSecond
    \/ ParseDurationCall
    \/ DurationFinish

Spec == Init /\ [][Next]_vars

(***************************************************************************)
(* The calls with other phrases and reference instants: every              *)
(* specification below runs the same entry points.                         *)
(***************************************************************************)
\* The state a call starts in, and the calls made with a reference instant
\* among nows and a phrase of at most MaxLen words among words.
Called ==
    /\ op = "none"
    /\ pc = "call"
    /\ tokens = <<>>
    /\ lead = NoToken
    /\ anchor = ZeroTime
    /\ timespec = NilTime
    /\ tsret = [t |-> NilTime, err |-> NoErr]
    /\ start = ZeroTime
    /\ ret = NoReturn

Entry(nows, words) ==
    /\ now \in nows
    /\ \E n \in 0..MaxLen : args \in [1..n -> words]
    /\ Called
    /\ NoServer

\* Times of day: `now`, hours of the day below and above 12, am and pm.
ClockVocabulary ==
    { <<"n","o","w">>,
      <<"t","o">>,
      <<"+">>,
      <<"t","o","m","o","r","r","o","w">>,
      <<"a","m">>,
      <<"p","m">>,
      <<"1">>,
      <<"1","5">>,
      <<"2","4">>,
      <<"1","2",":","3","0">> }

\* Saturday 2017-04-01 11:10:30
ClockNows == { GoDate(2017, 4, 1, 11, 10, 30) }

ClockInit == Entry(ClockNows, ClockVocabulary)

SpecClock == ClockInit /\ [][Next]_vars

\* Long dates: month names before and after the reference month, a day, an
\* ordinal, a time, a year of four digits and one of two.
MonthVocabulary ==
    { <<"m","a","r">>,
      <<"d","e","c">>,
      <<"1">>,
      <<"s","t">>,
      <<"9",":","3","0">>,
      <<"2","0","1","8">>,
      <<"1","7">>,
      <<"t","o">> }

\* Saturday 2017-04-01 11:00:30 and Sunday 2016-12-25 09:36:00
MonthNows == { GoDate(2017, 4, 1, 11, 0, 30), GoDate(2016, 12, 25, 9, 36, 0) }

MonthInit == Entry(MonthNows, MonthVocabulary)

SpecMonth == MonthInit /\ [][Next]_vars

\* Relative durations: the two words that introduce one, a number, the
\* three units, and a separator and a time that are no part of one.
DurationVocabulary ==
    { <<"+">>,
      <<"f","o","r">>,
      <<"2">>,
      <<"h">>,
      <<"d","a","y","s">>,
      <<"w","e","e","k","s">>,
      <<"t","o">>,
      <<"9",":","3","0">> }

DurationInit == Entry(ClockNows, DurationVocabulary)

SpecDuration == DurationInit /\ [][Next]_vars

\* ISO dates: every year-month-day text with a month up to MaxMonth and a
\* day up to MaxDay.  With a year among DateYears the date starts the phrase,
\* alone or as the start of a range.  An instant of the model is a number of
\* seconds that TLC can hold, between 1902 and 2037: a date of a year among
\* CenturyYears is lexed in a phrase whose first word the grammar refuses,
\* so that it is validated and never resolved.
DateYears == {2000, 2016, 2017}

CenturyYears == {1900, 2100}

DigitChar == <<"0", "1", "2", "3", "4", "5", "6", "7", "8", "9">>

\* The decimal numeral of n in two and in four digits.
Numeral2(n) == <<DigitChar[((n \div 10) % 10) + 1], DigitChar[(n % 10) + 1]>>

Numeral4(n) == Numeral2(n \div 100) \o Numeral2(n % 100)

DateWord(y, m, d) == Numeral4(y) \o <<"-">> \o Numeral2(m) \o <<"-">> \o Numeral2(d)

DateSuffixes == { <<>>, << <<"t","o">>, <<"2","3",":","7","5">> >> }

DatePhrases(m, d) ==
    { <<DateWord(y, m, d)>> \o s : y \in DateYears, s \in DateSuffixes }
        \cup { << <<"p","m">>, DateWord(y, m, d) >> : y \in CenturyYears }

DateInit ==
    /\ now \in Nows
    /\ \E m \in 0..MaxMonth, d \in 0..MaxDay : args \in DatePhrases(m, d)
    /\ Called
    /\ NoServer

SpecDate == DateInit /\ [][Next]_vars

\* Words as they are typed: several tokens written without a space, upper
\* case letters, a date out of format and a character the scanner refuses.
LexVocabulary ==
    { <<"5","p","m">>,
      <<"+","1","h","o","u","r">>,
      <<"f","r","o","m","5",":","4","5","P","M">>,
      <<"t","o">>,
      <<"n","o","o","n">>,
      <<"N","o","W">>,
      <<"t","o","m","o","r","r","o","w">>,
      <<"4","-","6","-","2","0","1","7">>,
      <<"9",":","3","0","!">> }

LexInit == Entry(Nows, LexVocabulary)

SpecLex == LexInit /\ [][Next]_vars

\* Added hours: the `+` that introduces a duration, numbers of hours up to
\* more than a day, the unit and a separator, at reference instants before,
\* on and after a half hour and its middle, with and without seconds.
HourVocabulary ==
    { <<"+">>,
      <<"0">>,
      <<"1">>,
      <<"2","5">>,
      <<"h","o","u","r","s">>,
      <<"t","o">> }

HourMinutes == {0, 14, 15, 16, 30, 45}

HourSeconds == {0, 30}

\* Saturday 2017-04-01, 11 o'clock and later
HourNows == { GoDate(2017, 4, 1, 11, m, s) : m \in HourMinutes, s \in HourSeconds }

HourInit == Entry(HourNows, HourVocabulary)

SpecHours == HourInit /\ [][Next]_vars

\* Words with a `-`: dates of the calendar, one of them with a word written
\* after it without a space, a date that is none, a date out of format, and
\* a `-` after letters and after a time; a separator and a number.
DashVocabulary ==
    { <<"2","0","1","7","-","0","5","-","3","1">>,
      <<"2","0","1","6","-","0","2","-","2","9">>,
      <<"2","0","1","7","-","0","2","-","2","9">>,
      <<"5","-","3","1">>,
      <<"m","a","r","-","3","1">>,
      <<"9",":","3","0","-","1","0">>,
      <<"2","0","1","7","-","0","5","-","3","1","t","o">>,
      <<"t","o">>,
      <<"1">> }

DashInit == Entry(Nows, DashVocabulary)

SpecDash == DashInit /\ [][Next]_vars

\* Phrases that keep both loops turning: `from` before the first timespec,
\* `now`, after which parseTimeSpec goes round again, a duration written as
\* one word and lexed into several tokens, its unit and a separator.
LiveVocabulary ==
    { <<"f","r","o","m">>,
      <<"n","o","w">>,
      <<"t","o">>,
      <<"+","1">>,
      <<"h","o","u","r","s">> }

LiveInit == Entry(Nows, LiveVocabulary)

\* A call runs on one goroutine, which is never held up: whenever a
\* statement is left to run, it runs.
SpecLive == LiveInit /\ [][Next]_vars /\ WF_vars(Next)

(***************************************************************************)
(* The reservation server (cmd/reservations): type memory, the store of    *)
(* the reservations, over the JSONL log that NewMemory replays when the    *)
(* server starts.  An instant of the server is a number of half seconds.   *)
(* Add and Delete hold the store's mutex from beginning to end and are one *)
(* step each; Update takes the mutex twice and is three steps.  The log    *)
(* file is taken to be readable and writable: no call of the backing store *)
(* returns an error.                                                       *)
(***************************************************************************)
\* The last instant the server's clock reaches.
MaxClock == 2

\* The most records the log file holds.
MaxLog == 3

\* time.Second, in half seconds
Second == 2

\* t.Round(time.Second): halfway values round up
RoundSecond(t) == ((t + (Second \div 2)) \div Second) * Second

\* The clients of the server, the resources they book and the time ranges
\* [Start, End) they ask for.
Clients == {"c1", "c2"}

Resources == {"r1", "r2"}

Ranges == { <<0, 1>>, <<1, 3>> }

\* A *Reservation (api.Reservation): the fields the store decides on (Share,
\* Notes, Name, Initials and Email are copied and never read), and ptr, the
\* identity of the object pointed to.  The object that Add
\* stores, or that ReadLog decodes, for the k-th record of the log has
\* identity k.
Reservation(id, lastModified, resource, from, to, loan, ptr) ==
    [ID |-> id, LastModified |-> lastModified, Resource |-> resource,
     Start |-> from, End |-> to, Loan |-> loan, ptr |-> ptr]

\* nil
NoReservation == Reservation(-1, 0, "", 0, 0, FALSE, 0)

\* The requests a client sends: a reservation decoded from the request
\* body, ID and LastModified zero.
Requests ==
    { Reservation(0, 0, r, g[1], g[2], l, 0) :
        r \in Resources, g \in Ranges, l \in BOOLEAN }

\* memory.overlap
overlap(s, r) == s.Start < r.End /\ s.End > r.Start

\* m.GetById(resid): the index in m.reservations of the last reservation
\* with that ID, 0 for "reservation not found"
RECURSIVE GetByIdFrom(_, _, _)
GetByIdFrom(rs, i, resid) ==
    IF i = 0 THEN 0
    ELSE IF rs[i].ID = resid THEN i
    ELSE GetByIdFrom(rs, i - 1, resid)

GetById(rs, resid) == GetByIdFrom(rs, Len(rs), resid)

\* lines 140-152 of Add: the error the loop over m.reservations returns,
\* "" when it runs to its end
RECURSIVE AddConflict(_, _)
AddConflict(rs, res) ==
    IF rs = <<>> THEN ""
    ELSE IF Head(rs).Resource # res.Resource THEN AddConflict(Tail(rs), res)
    ELSE IF Head(rs).Loan THEN "resource on loan"
    ELSE IF overlap(Head(rs), res) THEN "reservation range conflict"
    ELSE AddConflict(Tail(rs), res)

\* lines 154-160 of Add: the reservation as it is stored
Added(res, id, t, ptr) ==
    [res EXCEPT !.ID = id, !.LastModified = RoundSecond(t),
                !.End = IF res.Loan THEN res.Start ELSE res.End,
                !.ptr = ptr]

\* A record of the log, type jsonlog: the reservation is encoded by value.
Record(operation, id, res) ==
    [Operation |-> operation, ID |-> id, Reservation |-> [res EXCEPT !.ptr = 0]]

\* Every reference to the object obj.ptr sees the fields of obj.
Assigned(rs, obj) ==
    [i \in 1..Len(rs) |-> IF rs[i].ptr = obj.ptr THEN obj ELSE rs[i]]

Held(cl, obj) ==
    [c \in DOMAIN cl |->
        IF cl[c].res.ptr = obj.ptr THEN [cl[c] EXCEPT !.res = obj] ELSE cl[c]]

\* append(s[:i], s[i+1:]...), with i counted from 1
Removed(rs, i) == SubSeq(rs, 1, i - 1) \o SubSeq(rs, i + 1, Len(rs))

\* lines 194-246 of Update, on the object res that GetById returned:
\* [err, res], err "" when the update is made
Updated(res, req, t) ==
    IF res.End < t /\ ~res.Loan THEN [err |-> "already expired", res |-> res]
    ELSE IF res.Start < t
    THEN IF req.Resource # res.Resource \/ req.Start # res.Start
         THEN [err |-> "already active", res |-> res]
         ELSE IF res.Loan # req.Loan
         THEN [err |-> "converting to/from loan", res |-> res]
         ELSE [err |-> "",
               res |-> [res EXCEPT !.LastModified = RoundSecond(t), !.End = req.End]]
    ELSE [err |-> "",
          res |-> [res EXCEPT !.LastModified = RoundSecond(t),
                              !.Resource = req.Resource, !.Start = req.Start,
                              !.End = req.End, !.Loan = req.Loan]]

\* lines 260-316 of Delete: what the loop does, and on which element:
\* [what, i], what being "remove", "unloan", "end" or the error returned
RECURSIVE DeleteFrom(_, _, _, _, _)
DeleteFrom(rs, i, ref, lastmod, t) ==
    IF i > Len(rs) THEN [what |-> "resource not found", i |-> 0]
    ELSE IF rs[i].ID # ref THEN DeleteFrom(rs, i + 1, ref, lastmod, t)
    ELSE IF rs[i].LastModified > lastmod THEN [what |-> "resource modified", i |-> i]
    ELSE IF rs[i].Start > t THEN [what |-> "remove", i |-> i]
    ELSE IF rs[i].Loan THEN [what |-> "unloan", i |-> i]
    ELSE IF rs[i].Start < t /\ rs[i].End > t THEN [what |-> "end", i |-> i]
    ELSE IF rs[i].End < t THEN [what |-> "resource already expired", i |-> i]
    ELSE DeleteFrom(rs, i + 1, ref, lastmod, t)

\* lines 282-299 of Delete: the reservation ended now
Ended(r, t) == [r EXCEPT !.Loan = FALSE, !.End = t, !.LastModified = RoundSecond(t)]

\* case "delete" of ReadLog, lines 113-121: the first reservation with the
\* ID, looked for from the i-th on, is cut out and the loop left.
RECURSIVE DeleteReplayed(_, _, _)
DeleteReplayed(rs, i, id) ==
    IF i > Len(rs) THEN rs
    ELSE IF rs[i].ID # id THEN DeleteReplayed(rs, i + 1, id)
    ELSE Removed(rs, i)

\* case "modify" of ReadLog, lines 104-111
ModifyReplayed(rs, id, obj) ==
    [i \in 1..Len(rs) |-> IF rs[i].ID = id THEN obj ELSE rs[i]]

\* jsonl.ReadLog, from the k-th record on: m.reservations.  obj is the
\* reservation the record was decoded into.
RECURSIVE ReadLogFrom(_, _, _)
ReadLogRecord(f, k, rs, obj) ==
    CASE f[k].Operation = "add" -> ReadLogFrom(f, k + 1, Append(rs, obj))
      [] f[k].Operation = "modify" -> ReadLogFrom(f, k + 1, ModifyReplayed(rs, f[k].ID, obj))
      [] f[k].Operation = "delete" -> ReadLogFrom(f, k + 1, DeleteReplayed(rs, 1, f[k].ID))

ReadLogFrom(f, k, rs) ==
    IF k > Len(f) THEN rs
    ELSE ReadLogRecord(f, k, rs, [f[k].Reservation EXCEPT !.ptr = k])

ReadLog(f) == ReadLogFrom(f, 1, <<>>)

\* NewMemory(store, mail): the reservations are what store.ReadLog made of
\* the log, and nextID is the zero value.
NewMemory(f) == [nextID |-> 0, reservations |-> ReadLog(f)]

\* A client that has not called yet, and one whose Update returned err.
\* ref is the reservation it asked for, seen the object it was shown, req
\* the request of its Update, res the pointer its Update holds.
Idle ==
    [pc |-> "idle", ref |-> -1, seen |-> 0, req |-> NoReservation,
     res |-> NoReservation, err |-> ""]

Returned(cl, err) == [cl EXCEPT !.pc = "done", !.res = NoReservation, !.err = err]

\* The values of If-Unmodified-Since a Delete comes with: one older and one
\* newer than every modification.
LastMods == {0, RoundSecond(MaxClock)}

StoreInit ==
    /\ memory = NewMemory(<<>>)
    /\ file = <<>>
    /\ clock = 0
    /\ client = [c \in Clients |-> Idle]
    /\ now = ZeroTime
    /\ args = <<>>
    /\ Called

\* time passes
Tick ==
    /\ clock < MaxClock
    /\ clock' = clock + 1
    /\ UNCHANGED <<memory, file, client>>
    /\ UNCHANGED parsevars

\* memory.Add(res), lines 131-173
Add ==
    /\ Len(file) < MaxLog
    /\ \E req \in Requests :
       \E res \in {Added(req, memory.nextID, clock, Len(file) + 1)} :
          IF AddConflict(memory.reservations, req) # ""
          THEN UNCHANGED <<memory, file>>
          ELSE /\ memory' = [memory EXCEPT !.nextID = @ + 1,
                                           !.reservations = Append(@, res)]
               /\ file' = Append(file, Record("add", res.ID, res))
    /\ UNCHANGED <<clock, client>>
    /\ UNCHANGED parsevars

\* memory.Delete(ref, lastmod), lines 254-317
Delete ==
    /\ Len(file) < MaxLog
    /\ \E ref \in 0..(MaxLog - 1), lastmod \in LastMods :
       \E d \in {DeleteFrom(memory.reservations, 1, ref, lastmod, clock)} :
          CASE d.what = "remove" ->
                 /\ memory' = [memory EXCEPT !.reservations = Removed(@, d.i)]
                 /\ file' = Append(file, Record("delete", ref, NoReservation))
                 /\ UNCHANGED client
            [] d.what \in {"unloan", "end"} ->
                 \E r \in {Ended(memory.reservations[d.i], clock)} :
                    /\ memory' = [memory EXCEPT !.reservations = Assigned(@, r)]
                    /\ client' = Held(client, r)
                    /\ file' = Append(file, Record("modify", r.ID, r))
            [] OTHER -> UNCHANGED <<memory, file, client>>
    /\ UNCHANGED clock
    /\ UNCHANGED parsevars

\* GET of a reservation: the client is shown a stored reservation and its
\* Last-Modified.  The clients are named in the order in which they call.
Get(c) ==
    /\ client[c].pc = "idle"
    /\ c = "c2" => client["c1"].pc # "idle"
    /\ \E i \in 1..Len(memory.reservations) :
       /\ GetById(memory.reservations, memory.reservations[i].ID) = i
       /\ client' = [client EXCEPT ![c] =
              [@ EXCEPT !.pc = "read", !.ref = memory.reservations[i].ID,
                        !.seen = memory.reservations[i].ptr,
                        !.req = [NoReservation EXCEPT
                                   !.LastModified = memory.reservations[i].LastModified]]]
    /\ UNCHANGED <<memory, file, clock>>
    /\ UNCHANGED parsevars

\* memory.Update(ref, req), lines 181-185: the lookup, under the mutex.  The
\* request carries the Last-Modified the client was shown.
UpdateGetById(c) ==
    /\ client[c].pc = "read"
    /\ \E i \in {GetById(memory.reservations, client[c].ref)} :
       client' = [client EXCEPT ![c] =
           IF i = 0 THEN Returned(@, "reservation not found")
           ELSE [@ EXCEPT !.pc = "found", !.res = memory.reservations[i]]]
    /\ UNCHANGED <<memory, file, clock>>
    /\ UNCHANGED parsevars

\* memory.Update, lines 187-189: the test of LastModified, the mutex not held
UpdateModified(c) ==
    /\ client[c].pc = "found"
    /\ client' = [client EXCEPT ![c] =
           IF @.res.LastModified > @.req.LastModified THEN Returned(@, "modified")
           ELSE [@ EXCEPT !.pc = "checked"]]
    /\ UNCHANGED <<memory, file, clock>>
    /\ UNCHANGED parsevars

\* memory.Update, lines 191-246: the update, under the mutex.  The fields
\* of the request other than LastModified are first read here, and are
\* drawn here.
UpdateLocked(c) ==
    /\ client[c].pc = "checked"
    /\ Len(file) < MaxLog
    /\ \E req \in Requests : \E u \in {Updated(client[c].res, req, clock)} :
       IF u.err # ""
       THEN /\ client' = [client EXCEPT ![c] = Returned(@, u.err)]
            /\ UNCHANGED <<memory, file>>
       ELSE /\ memory' = [memory EXCEPT !.reservations = Assigned(@, u.res)]
            /\ client' = [Held(client, u.res) EXCEPT ![c] = Returned(@, "")]
            /\ file' = Append(file, Record("modify", u.res.ID, u.res))
    /\ UNCHANGED clock
    /\ UNCHANGED parsevars

\* The server is stopped and started again: NewMemory(file, mail).  The
\* calls in progress are lost.
Restart ==
    /\ memory' = NewMemory(file)
    /\ client' = [c \in Clients |->
                    IF client[c].pc \in {"found", "checked"}
                    THEN Returned(client[c], "connection closed") ELSE client[c]]
    /\ UNCHANGED <<file, clock>>
    /\ UNCHANGED parsevars

StoreNext ==
    \/ Tick
    \/ Add
    \/ Delete
    \/ \E c \in Clients : Get(c)
    \/ \E c \in Clients : UpdateGetById(c)
    \/ \E c \in Clients : UpdateModified(c)
    \/ \E c \in Clients : UpdateLocked(c)
    \/ Restart

SpecStore == StoreInit /\ [][StoreNext]_vars

(***************************************************************************)
(* Vocabulary of the properties.                                           *)
(***************************************************************************)
\* The token stream the phrase lexes to.
Lexed == tokenize(args).fifo.tokens

RECURSIVE DropFrom(_)
DropFrom(q) ==
    IF q # <<>> /\ Head(q).Type = "TokFrom" THEN DropFrom(Tail(q)) ELSE q

\* The first token after any leading `from` is Plus, Until or To.
DurationLead ==
    LET q == DropFrom(Lexed) IN
    q # <<>> /\ Head(q).Type \in {"TokPlus", "TokUntil", "TokTo"}

LeadingFrom == Lexed # <<>> /\ Head(Lexed).Type = "TokFrom"

\* The tokens taken from the queue so far.
Consumed == SubSeq(Lexed, 1, Len(Lexed) - Len(tokens))

InParseTimeSpec == pc \in {"spec1", "spec2", "dspec"}

Succeeded(o) == pc = "done" /\ op = o /\ ret.err = NoErr

DayOf(t) == t \div SecondsPerDay

TimeOfDay(t) == t % SecondsPerDay

\* 12 hours when the token is a PM token, none otherwise.
PMOffset(q) == IF q # <<>> /\ Head(q).Type = "TokPM" THEN 12 * 3600 ELSE 0

PastMsg == "start is in the past"

SeparatorMsg == "missing separator between start and end"

ExtraMsg == "extra arguments beyond timespec"

(***************************************************************************)
(* C1                                                                      *)
(***************************************************************************)
\* C1: whenever ParseRange returns without error the returned end is not
\* before the returned start, on the start/end path and in duration mode
\* (where the start is now) alike.
C1_EndNotBeforeStart == Succeeded("ParseRange") => ~(ret.end < ret.start)

\* A start/end phrase was accepted, with a start that is not now.
C1_Witness ==
    /\ Succeeded("ParseRange")
    /\ ret.line = 1114
    /\ ret.start # now
    /\ ret.start < ret.end

(***************************************************************************)
(* C2                                                                      *)
(***************************************************************************)
\* C2: the instant resolved by the first timespec (the start of ParseRange,
\* its end when only one timespec is given, the end of ParseDuration) is not
\* before now on any successful return, and whenever the first timespec
\* resolves to an instant before now the call returns the error "start is
\* in the past".
C2_StartNotInPast ==
    /\ [](Succeeded("ParseRange") =>
            IF ret.line = 1114 THEN ret.start >= now ELSE ret.end >= now)
    /\ [](Succeeded("ParseDuration") => ret.end >= now)
    /\ [][(pc \in {"first", "dfinish"} /\ tsret.err = NoErr /\ tsret.t < now)
            => (pc' = "done" /\ ret'.err.msg = PastMsg)]_vars

\* A call failed because its first timespec resolved to an instant before
\* now.
C2_Witness ==
    /\ pc = "done"
    /\ ret.err.msg = PastMsg
    /\ tsret.err = NoErr
    /\ tsret.t < now

(***************************************************************************)
(* C3                                                                      *)
(***************************************************************************)
\* C3: in ParseRange, when the first token after any leading `from` is
\* Plus, Until or To and the timespec that follows resolves to an instant
\* not before now, the call returns without error, with start equal to now
\* exactly (seconds included) and end equal to the resolved instant.
C3_DurationMode ==
    [][(pc = "first" /\ op = "ParseRange" /\ tsret.err = NoErr /\ tsret.t >= now
          /\ DurationLead)
         => (/\ pc' = "done"
             /\ ret'.err = NoErr
             /\ ret'.start = now
             /\ ret'.end = tsret.t)]_vars

\* `from to <timespec>` was accepted at a now that is not a whole minute.
C3_Witness ==
    /\ Succeeded("ParseRange")
    /\ DurationLead
    /\ LeadingFrom
    /\ lead.Type = "TokTo"
    /\ now % 60 # 0
    /\ ret.start = now
    /\ ret.end = tsret.t

(***************************************************************************)
(* C4                                                                      *)
(***************************************************************************)
\* C4, as stated: outside duration mode, once the first timespec of
\* ParseRange has resolved to an instant not before now, a next token that
\* is missing or is none of Until, To, Plus, For makes the call fail with
\* "missing separator between start and end".
C4_AsStated ==
    [][(pc = "first" /\ op = "ParseRange" /\ tsret.err = NoErr /\ tsret.t >= now
          /\ ~DurationLead
          /\ (tokens = <<>>
                \/ Head(tokens).Type \notin {"TokUntil", "TokTo", "TokPlus", "TokFor"}))
         => (pc' = "done" /\ ret'.err.msg = SeparatorMsg)]_vars

\* C4: outside duration mode, once the first timespec of ParseRange has
\* resolved to an instant not before now, a next token that is present and
\* is none of Until, To, Plus, For makes the call fail with "missing
\* separator between start and end"; a missing next token does not.
C4_MissingSeparator ==
    [][(pc = "first" /\ op = "ParseRange" /\ tsret.err = NoErr /\ tsret.t >= now
          /\ ~DurationLead)
         => /\ (tokens # <<>>
                  /\ Head(tokens).Type \notin {"TokUntil", "TokTo", "TokPlus", "TokFor"})
               => (pc' = "done" /\ ret'.err.msg = SeparatorMsg)
            /\ tokens = <<>> => (pc' = "done" /\ ret'.err = NoErr)]_vars

\* A second timespec followed the first without a separator.
C4_Witness ==
    /\ pc = "done"
    /\ op = "ParseRange"
    /\ ret.err.msg = SeparatorMsg
    /\ tokens # <<>>
    /\ Head(tokens).Type \in {"TokTime", "TokNumber", "TokDay", "TokDate"}

C6_ExtraArguments ==
    [][(pc = "second" /\ tsret.err = NoErr /\ tokens # <<>>)
         => (/\ pc' = "done"
             /\ ret'.err.msg = ExtraMsg
             /\ ret'.err.kind = "invalid"
             /\ ret'.err.token = Lexed[Len(Consumed) + 1])]_vars

\* The call failed on the token after the end timespec.
C6_Witness ==
    /\ pc = "done"
    /\ op = "ParseRange"
    /\ ret.err.msg = ExtraMsg
    /\ ret.err.token.count = Len(Lexed)
    /\ Len(Lexed) = 4

(***************************************************************************)
(* C7                                                                      *)
(***************************************************************************)
\* C7: ParseRange never succeeds with unconsumed input: on every return
\* without error, duration mode included, the token queue is empty.
C7_NoUnconsumedInput == Succeeded("ParseRange") => tokens = <<>>

(***************************************************************************)
(* C8                                                                      *)
(***************************************************************************)
\* The end timespec of an accepted start/end phrase is a Time token,
\* followed or not by am or pm, that comes after until or to.
EndSpecIsTime ==
    LET n == Len(Lexed) IN
    \/ /\ n >= 3
       /\ Lexed[n].Type = "TokTime"
       /\ Lexed[n - 1].Type \in {"TokUntil", "TokTo"}
    \/ /\ n >= 4
       /\ Lexed[n].Type \in {"TokAM", "TokPM"}
       /\ Lexed[n - 1].Type = "TokTime"
       /\ Lexed[n - 2].Type \in {"TokUntil", "TokTo"}

EndTimeToken ==
    LET n == Len(Lexed) IN IF Lexed[n].Type = "TokTime" THEN Lexed[n] ELSE Lexed[n - 1]

\* The hour and minute the end timespec gives, as seconds of the day.
EndTimeGiven ==
    EndTimeToken.Hour * 3600 + EndTimeToken.Minute * 60
        + PMOffset(<<Lexed[Len(Lexed)]>>)

\* C8, as stated: when ParseRange accepts a phrase whose end timespec is a
\* Time token with an hour below 24, followed or not by am or pm and not by
\* tomorrow, the returned end lies on the calendar date of the returned
\* start, at the given hour and minute.
C8_AsStated ==
    (Succeeded("ParseRange") /\ ret.line = 1114 /\ EndSpecIsTime
       /\ EndTimeToken.Hour < 24)
      => (DayOf(ret.end) = DayOf(ret.start) /\ TimeOfDay(ret.end) = EndTimeGiven)

\* C8: when ParseRange accepts a phrase whose end timespec is a Time token
\* with an hour below 24 and a minute below 60, followed or not by am or pm
\* and not by tomorrow, the returned end lies on the calendar date of the
\* returned start, at the given hour and minute.
C8_EndOnStartDate ==
    (Succeeded("ParseRange") /\ ret.line = 1114 /\ EndSpecIsTime
       /\ EndTimeToken.Hour < 24 /\ EndTimeToken.Minute < 60)
      => (DayOf(ret.end) = DayOf(ret.start) /\ TimeOfDay(ret.end) = EndTimeGiven)

\* An end time in range was accepted after a start on another date than
\* now's.
C8_Witness ==
    /\ Succeeded("ParseRange")
    /\ ret.line = 1114
    /\ EndSpecIsTime
    /\ EndTimeToken.Hour < 24
    /\ EndTimeToken.Minute < 60
    /\ DayOf(ret.start) # DayOf(now)
    /\ DayOf(ret.end) = DayOf(ret.start)

(***************************************************************************)
(* C9                                                                      *)
(***************************************************************************)
\* The queue starts with a time of day in range (a Time token, or a Number
\* that is read as an hour of the day), am or pm or neither, and tomorrow.
TimeThenTomorrow ==
    /\ Len(tokens) >= 2
    /\ \/ Head(tokens).Type = "TokTime"
            /\ Head(tokens).Hour < 24 /\ Head(tokens).Minute < 60
       \/ Head(tokens).Type = "TokNumber" /\ Head(tokens).Num < 24
    /\ \/ tokens[2].Type = "TokTomorrow"
       \/ /\ Len(tokens) >= 3
          /\ tokens[2].Type \in {"TokAM", "TokPM"}
          /\ tokens[3].Type = "TokTomorrow"

\* C9: a `tomorrow` that follows a time of day (a Time token or an
\* hour-of-day Number, with am or pm or neither) makes parseTimeSpec
\* resolve to the calendar day right after now's calendar day, whatever the
\* anchor is.
C9_TomorrowOfNow ==
    [][(InParseTimeSpec /\ TimeThenTomorrow /\ pc' # pc /\ tsret'.err = NoErr)
         => DayOf(tsret'.t) = DayOf(now) + 1]_vars

(***************************************************************************)
(* C10                                                                     *)
(***************************************************************************)
\* The time of day a weekday name resolves at: the one that follows it
\* (a Time token, or a Number read as an hour, with pm adding 12 hours) or,
\* when the name ends the phrase, the anchor's hour and minute.
WeekdayTimeOfDay ==
    LET rest == Tail(tokens) IN
    IF rest = <<>> THEN TimeOfDay(anchor) - (anchor % 60)
    ELSE IF Head(rest).Type = "TokTime"
    THEN Head(rest).Hour * 3600 + Head(rest).Minute * 60 + PMOffset(Tail(rest))
    ELSE Head(rest).Num * 3600 + PMOffset(Tail(rest))

\* C10: a WeekdayName resolves to the anchor's date plus d days, where d is
\* (named weekday - anchor's weekday) mod 7, between 0 and 6, so that the
\* anchor's own weekday gives d = 0 and the anchor's date; the time of day
\* is counted from the start of that date.
C10_WeekdayDistance ==
    [][(InParseTimeSpec /\ tokens # <<>> /\ Head(tokens).Type = "TokDay"
          /\ pc' # pc /\ tsret'.err = NoErr)
         => LET d == (Days[Head(tokens).Val] - GoWeekday(anchor)) % 7
            IN  tsret'.t = (DayOf(anchor) + d) * SecondsPerDay + WeekdayTimeOfDay]_vars

\* A weekday name was resolved from an anchor on that weekday and gave the
\* anchor's date.
C10_Witness ==
    /\ pc = "second"
    /\ tsret.err = NoErr
    /\ Consumed # <<>>
    /\ Consumed[Len(Consumed)].Type = "TokDay"
    /\ Days[Consumed[Len(Consumed)].Val] = GoWeekday(anchor)
    /\ anchor # now
    /\ DayOf(tsret.t) = DayOf(anchor)

(***************************************************************************)
(* C11                                                                     *)
(***************************************************************************)
\* The queue starts with a weekday name that ends it or is followed by a
\* token that is no time of day (neither a Time nor a Number).
WeekdayWithoutTime ==
    /\ tokens # <<>>
    /\ Head(tokens).Type = "TokDay"
    /\ \/ Tail(tokens) = <<>>
       \/ Head(Tail(tokens)).Type \notin {"TokTime", "TokNumber"}

\* C11: the time of day after a WeekdayName is optional: when the name ends
\* the queue or is followed by a token that is not a time (a separator, for
\* one), parseTimeSpec succeeds with the weekday's date at the anchor's hour
\* and minute and leaves that token at the front of the queue.
C11_WeekdayTimeOptional ==
    [][(InParseTimeSpec /\ WeekdayWithoutTime)
         => (/\ pc' # pc
             /\ tsret'.err = NoErr
             /\ tokens' = Tail(tokens)
             /\ DayOf(tsret'.t) =
                    DayOf(anchor) + ((Days[Head(tokens).Val] - GoWeekday(anchor)) % 7)
             /\ TimeOfDay(tsret'.t) = TimeOfDay(anchor) - (anchor % 60))]_vars

(***************************************************************************)
(* C12                                                                     *)
(***************************************************************************)
\* The queue the entry point makes its first parseTimeSpec call with:
\* ParseRange drops every leading from, and both entry points drop one
\* leading until or to.
FirstQueue ==
    LET q == IF op = "ParseRange" THEN DropFrom(Lexed) ELSE Lexed IN
    IF q # <<>> /\ Head(q).Type \in {"TokUntil", "TokTo"} THEN Tail(q) ELSE q

\* C12: a timespec that consists of the single token `now` resolves
\* successfully to the anchor: when parseTimeSpec is called with the queue
\* [now] it returns the anchor (to the minute) and no error, no token having
\* to follow `now`.
C12_NowAlone ==
    (pc \in {"first", "dfinish"} /\ Len(FirstQueue) = 1
       /\ FirstQueue[1].Type = "TokNow")
      => (tsret.err = NoErr /\ tsret.t = anchor - (anchor % 60))

(***************************************************************************)
(* C13                                                                     *)
(***************************************************************************)
\* The smallest half-hour boundary that is not before t.
HalfHourCeil(t) == ((t + 30 * 60 - 1) \div (30 * 60)) * (30 * 60)

\* The queue after an am or pm at its front, if there is one.
AfterSuffix(q) ==
    IF q # <<>> /\ Head(q).Type \in {"TokAM", "TokPM"} THEN Tail(q) ELSE q

\* The queue starts with a Number.
NumberFirst == tokens # <<>> /\ Head(tokens).Type = "TokNumber"

\* The hour of the day N:00 on the anchor's date, counted from the start of
\* that date, pm adding 12 hours.
HourOfDayGiven ==
    DayOf(anchor) * SecondsPerDay + Head(tokens).Num * 3600 + PMOffset(Tail(tokens))

\* C13: a bare Number N is resolved by position.  When N is the last token
\* of the queue, parseTimeSpec returns the anchor (to the minute) plus N
\* hours, rounded up to a half-hour boundary.  When a token follows N, the
\* parse fails only on a pm and otherwise returns the anchor's date at N:00,
\* am or pm applied; a `tomorrow` after that is consumed and keeps the time
\* of day; any other token is left in the queue.
C13_NumberByPosition ==
    [][(InParseTimeSpec /\ NumberFirst)
         => /\ pc' # pc
            /\ IF Tail(tokens) = <<>>
               THEN /\ tsret'.err = NoErr
                    /\ tsret'.t = HalfHourCeil(anchor - (anchor % 60)
                                                 + Head(tokens).Num * 3600)
                    /\ tokens' = <<>>
               ELSE IF tsret'.err # NoErr
               THEN Head(Tail(tokens)).Type = "TokPM"
               ELSE IF AfterSuffix(Tail(tokens)) # <<>>
                         /\ Head(AfterSuffix(Tail(tokens))).Type = "TokTomorrow"
               THEN /\ TimeOfDay(tsret'.t) = TimeOfDay(HourOfDayGiven)
                    /\ tokens' = Tail(AfterSuffix(Tail(tokens)))
               ELSE /\ tsret'.t = HourOfDayGiven
                    /\ tokens' = AfterSuffix(Tail(tokens))]_vars

\* The same Number was resolved twice in a phrase: followed by a separator
\* it gave the hour of the day of the start, and as the last token it was
\* added, in hours, to that start.
C13_Witness ==
    /\ pc = "second"
    /\ tsret.err = NoErr
    /\ tokens = <<>>
    /\ Len(Lexed) = 3
    /\ Lexed[1].Type = "TokNumber"
    /\ Lexed[3].Type = "TokNumber"
    /\ Lexed[1].Num = Lexed[3].Num
    /\ TimeOfDay(anchor) = Lexed[1].Num * 3600
    /\ tsret.t = anchor + Lexed[3].Num * 3600

(***************************************************************************)
(* C14                                                                     *)
(***************************************************************************)
\* Where the queue holds the time of day of the timespec that starts at its
\* front: at the front, or right after a tomorrow, a weekday or a date
\* (0 when it holds none there).
TimeAt ==
    IF tokens # <<>> /\ Head(tokens).Type \in {"TokTime", "TokNumber"} THEN 1
    ELSE IF /\ Len(tokens) >= 2
            /\ Head(tokens).Type \in {"TokTomorrow", "TokDay", "TokDate"}
            /\ tokens[2].Type \in {"TokTime", "TokNumber"}
    THEN 2
    ELSE 0

\* The hour and the minute that token gives.
HourGiven == IF tokens[TimeAt].Type = "TokTime" THEN tokens[TimeAt].Hour
             ELSE tokens[TimeAt].Num

MinuteGiven == IF tokens[TimeAt].Type = "TokTime" THEN tokens[TimeAt].Minute ELSE 0

\* A time of day is followed by pm.
TimeThenPM ==
    /\ TimeAt > 0
    /\ Len(tokens) > TimeAt
    /\ tokens[TimeAt + 1].Type = "TokPM"

\* C14: a pm suffix is accepted only for hours below 12: after a Time token
\* or an hour-of-day Number whose hour is 12 or more (12, 15, 23, 24, ...)
\* a pm makes parseTimeSpec fail with "time out of range", an InvalidValue
\* error that carries the pm token; after an hour below 12 the parse
\* succeeds and pm adds exactly 12 hours to the time of day.
C14_PMBelowTwelve ==
    [][(InParseTimeSpec /\ timespec = NilTime /\ TimeThenPM)
         => /\ pc' # pc
            /\ IF HourGiven >= 12
               THEN /\ tsret'.err.msg = "time out of range"
                    /\ tsret'.err.kind = "invalid"
                    /\ tsret'.err.token = tokens[TimeAt + 1]
               ELSE /\ tsret'.err = NoErr
                    /\ TimeOfDay(tsret'.t) =
                           HourGiven * 3600 + MinuteGiven * 60 + 12 * 3600]_vars

(***************************************************************************)
(* C15                                                                     *)
(***************************************************************************)
\* The queue starts with a month name.
MonthFirst == tokens # <<>> /\ Head(tokens).Type = "TokMonth"

\* Where the time of day of a long date stands: after the day, or after the
\* ordinal that follows the day.
LongDateTimeAt == IF tokens[3].Type = "TokOrdinal" THEN 4 ELSE 3

\* The time of day a long date gives, in seconds, pm adding 12 hours.
LongDateTime ==
    tokens[LongDateTimeAt].Hour * 3600 + tokens[LongDateTimeAt].Minute * 60
        + PMOffset(SubSeq(tokens, LongDateTimeAt + 1, Len(tokens)))

\* C15: for a MonthName timespec with no explicit year token, the year of
\* the date resolved is the anchor's year when the named month's number is
\* greater than or equal to the anchor's month, and the anchor's year plus
\* one when the named month precedes the anchor's month; the day of the
\* month is the one given and the time of day is counted from the start of
\* that date.
C15_MonthYear ==
    [][(InParseTimeSpec /\ MonthFirst /\ pc' # pc /\ tsret'.err = NoErr
          /\ tokens[Len(tokens) - Len(tokens')].Type # "TokNumber")
         => LET month == Months[Head(tokens).Val]
                year  == IF month >= GoMonth(anchor) THEN GoYear(anchor)
                         ELSE GoYear(anchor) + 1
                date  == tsret'.t - LongDateTime
            IN  /\ GoYear(date) = year
                /\ GoMonth(date) = month
                /\ GoDay(date) = tokens[2].Num
                /\ TimeOfDay(date) = 0]_vars

\* A month that precedes the anchor's month was resolved, without a year
\* token, in the year after the anchor's.
C15_Witness ==
    /\ pc \in {"first", "dfinish"}
    /\ tsret.err = NoErr
    /\ Len(Lexed) = 3
    /\ Lexed[1].Type = "TokMonth"
    /\ Months[Lexed[1].Val] < GoMonth(anchor)
    /\ GoYear(tsret.t) = GoYear(anchor) + 1
    /\ GoYear(anchor) = 2016

(***************************************************************************)
(* C16                                                                     *)
(***************************************************************************)
\* The queue starts with a date that ends it or is followed by a token that
\* is neither a Time nor a Number.
DateWithoutTime ==
    /\ tokens # <<>>
    /\ Head(tokens).Type = "TokDate"
    /\ \/ Tail(tokens) = <<>>
       \/ Head(Tail(tokens)).Type \notin {"TokTime", "TokNumber"}

\* C16: a Date token may stand alone: when the token after an ISO date is
\* absent or is neither a Time nor a Number (a separator, for one),
\* parseTimeSpec succeeds with that date at the anchor's hour and minute and
\* leaves the following token unconsumed at the front of the queue.
C16_DateAlone ==
    [][(InParseTimeSpec /\ DateWithoutTime)
         => (/\ pc' # pc
             /\ tsret'.err = NoErr
             /\ tokens' = Tail(tokens)
             /\ GoYear(tsret'.t) = Head(tokens).Year
             /\ GoMonth(tsret'.t) = Head(tokens).Month
             /\ GoDay(tsret'.t) = Head(tokens).Day
             /\ TimeOfDay(tsret'.t) = TimeOfDay(anchor) - (anchor % 60))]_vars

\* A date was resolved on its own and the separator after it is still at
\* the front of the queue.
C16_Witness ==
    /\ pc = "first"
    /\ tsret.err = NoErr
    /\ Lexed[1].Type = "TokDate"
    /\ tokens = Tail(Lexed)
    /\ tokens # <<>>
    /\ Head(tokens).Type = "TokTo"
    /\ GoDay(tsret.t) = Lexed[1].Day

(***************************************************************************)
(* C17                                                                     *)
(***************************************************************************)
\* The queue starts with the `+` or `for` that introduces a duration.
DurationFirst == tokens # <<>> /\ Head(tokens).Type \in {"TokPlus", "TokFor"}

\* The hours one unit stands for.
UnitHours(t) ==
    CASE t.Type = "TokRelHour" -> 1
      [] t.Type = "TokRelDay"  -> 24
      [] t.Type = "TokRelWeek" -> 168

\* What C17 says parseRelativeDuration returns for the queue q, r being
\* what it returned.
DurationAsClaimed(q, r) ==
    IF q = <<>>
    THEN r.err.msg = "expect duration" /\ r.err.kind = "endOfInput"
    ELSE IF Head(q).Type # "TokNumber"
    THEN /\ r.err.msg = "expect numeric value in duration"
         /\ r.err.kind = "invalid"
         /\ r.err.token = Head(q)
    ELSE IF Tail(q) = <<>>
    THEN r.err = NoErr /\ r.d = Head(q).Num * 3600 /\ r.tokens = <<>>
    ELSE IF Head(Tail(q)).Type \in {"TokRelHour", "TokRelDay", "TokRelWeek"}
    THEN /\ r.err = NoErr
         /\ r.d = Head(q).Num * UnitHours(Head(Tail(q))) * 3600
         /\ r.tokens = Tail(Tail(q))
    ELSE /\ r.err.msg = "invalid duration qualifier"
         /\ r.err.kind = "invalid"
         /\ r.err.token = Head(Tail(q))

\* C17: parseRelativeDuration returns N x 1, N x 24 or N x 168 hours for a
\* Number N followed by an hour, day or week unit; when the queue is
\* exhausted right after N the unit defaults to hours; a token after N that
\* is not a unit fails with "invalid duration qualifier"; a first token that
\* is no Number fails with "expect numeric value in duration" and an empty
\* queue with "expect duration".  parseTimeSpec returns that error, or adds
\* that duration: its result lies less than half an hour after the base
\* plus the duration.
C17_RelativeDuration ==
    [][(InParseTimeSpec /\ DurationFirst)
         => LET r    == parseRelativeDuration(Tail(tokens))
                base == IF timespec = NilTime THEN anchor - (anchor % 60) ELSE timespec
            IN  /\ DurationAsClaimed(Tail(tokens), r)
                /\ pc' # pc
                /\ tsret'.err = r.err
                /\ tokens' = r.tokens
                /\ r.err = NoErr
                     => (base + r.d <= tsret'.t /\ tsret'.t < base + r.d + 30 * 60)]_vars

\* `+ 2 weeks` or `for 2 weeks` was resolved to two weeks after the anchor.
C17_Witness ==
    /\ pc \in {"first", "dfinish"}
    /\ tsret.err = NoErr
    /\ tokens = <<>>
    /\ Len(Lexed) = 3
    /\ Lexed[3].Type = "TokRelWeek"
    /\ tsret.t >= anchor + 2 * 168 * 3600 - 60

(***************************************************************************)
(* C18                                                                     *)
(***************************************************************************)
\* The token Push makes of the date text of the phrase, the one word of ten
\* characters, before it validates it.
DateRead ==
    Classify(Token(args[CHOOSE i \in 1..Len(args) : Len(args[i]) = 10], "TokDate")).tok

\* The days of month m of year y in the Gregorian calendar.
GregorianDays(y, m) ==
    IF m = 2
    THEN (IF y % 4 = 0 /\ (y % 100 # 0 \/ y % 400 = 0) THEN 29 ELSE 28)
    ELSE IF m \in {4, 6, 9, 11} THEN 30 ELSE 31

Gregorian(y, m, d) == m \in 1..12 /\ d \in 1..GregorianDays(y, m)

\* The lexing of the phrase was refused for its date.
DateRefused ==
    /\ pc = "done"
    /\ ret.line \in {1034, 1122}
    /\ ret.err.msg = "invalid date"

\* C18: for every year y of a bounded range, every month m in 0..13 and
\* every day d in 0..32, dateValid reports no error exactly when (y, m, d)
\* is a date of the Gregorian calendar, February having 29 days exactly when
\* y is divisible by 4 and not by 100, or by 400; and the lexer refuses the
\* phrase for its date exactly when dateValid reports an error.
C18_DateValid ==
    /\ dateValid(DateRead) = NoErr
         <=> Gregorian(DateRead.Year, DateRead.Month, DateRead.Day)
    /\ pc # "call"
         => (DateRefused <=> ~Gregorian(DateRead.Year, DateRead.Month, DateRead.Day))

\* February 29 of a year divisible by 100 and not by 400 was refused.
C18_Witness ==
    /\ DateRefused
    /\ DateRead.Year % 100 = 0
    /\ DateRead.Year % 400 # 0
    /\ DateRead.Month = 2
    /\ DateRead.Day = 29

(***************************************************************************)
(* C19                                                                     *)
(***************************************************************************)
\* The phrase was lexed and the lexer reported no error.
LexedOK == pc # "call" /\ ~(pc = "done" /\ ret.line \in {1034, 1122})

\* The texts of the tokens of q, one after the other.
RECURSIVE Texts(_)
Texts(q) == IF q = <<>> THEN <<>> ELSE Head(q).Val \o Texts(Tail(q))

\* The characters of the words of a, one word after the other.
RECURSIVE Characters(_)
Characters(a) == IF a = <<>> THEN <<>> ELSE Head(a) \o Characters(Tail(a))

\* The tokens of q whose text lies in the first n characters of the phrase
\* written without spaces.
RECURSIVE TokensWithin(_, _)
TokensWithin(q, n) ==
    IF q = <<>> \/ Len(Head(q).Val) > n THEN 0
    ELSE 1 + TokensWithin(Tail(q), n - Len(Head(q).Val))

\* C19, as stated: for every phrase that lexes successfully each input word
\* yields exactly one token: the number of tokens in the queue equals the
\* number of words, so that a token's position is the index of its word.
C19_AsStated == LexedOK => Len(Lexed) = Len(args)

\* The tokens q are the words a cut into pieces: q has at least as many
\* tokens as a has words, the texts of q are the lower-cased characters of
\* a, every word ends where a token ends, and the positions count the tokens.
CutInto(q, a) ==
    /\ Len(q) >= Len(a)
    /\ Texts(q) = ToLower(Characters(a))
    /\ \A k \in 1..Len(a) :
           LET n == Len(Characters(SubSeq(a, 1, k)))
           IN  Len(Texts(SubSeq(q, 1, TokensWithin(q, n)))) = n
    /\ \A i \in 1..Len(q) : q[i].count = i

\* C19: for every phrase that lexes successfully each input word yields at
\* least one token and no token runs over two words: the texts of the
\* tokens, in order, are the lower-cased words, each cut into one piece or
\* more, and every word ends where a token ends.  The positions count the
\* tokens, 1, 2, 3, ..., in that order.
C19_TokensCutWords == LexedOK => \E r \in {tokenize(args)} : CutInto(r.fifo.tokens, args)

\* A phrase of two words was lexed into five tokens.
C19_Witness ==
    /\ LexedOK
    /\ Len(args) = 2
    /\ Len(Lexed) = 5
    /\ Lexed[5].count = 5

(***************************************************************************)
(* C20                                                                     *)
(***************************************************************************)
\* The error e is no InvalidValue error, or it carries a token of the lexed
\* stream whose position is the place of that token in the stream.
TokenPlaced(e) ==
    e.kind = "invalid"
      => /\ e.token # NoToken
         /\ e.token.count \in 1..Len(Lexed)
         /\ Lexed[e.token.count] = e.token

\* C20: every error of kind InvalidValue returned by parseTimeSpec,
\* ParseRange or ParseDuration carries a token that belongs to the lexed
\* stream, and its position p, counted from 1 in the order of enqueueing,
\* is such that the p-th token produced by lexing the same words is that
\* token.
C20_InvalidTokenPosition ==
    /\ pc \in {"first", "second", "dfinish"} => TokenPlaced(tsret.err)
    /\ pc = "done" => TokenPlaced(ret.err)

\* An entry point returned an InvalidValue error on the fourth token of the
\* phrase, a pm after an hour of 12 or more.
C20_Witness ==
    /\ pc = "done"
    /\ ret.err.kind = "invalid"
    /\ ret.err.msg = "time out of range"
    /\ ret.err.token.count = 4
    /\ Lexed[4].Type = "TokPM"

(***************************************************************************)
(* C21.  No error that ParseRange or ParseDuration returns has the kind    *)
(* NotFound: a GetToken that finds a token of another type is answered     *)
(* inside the grammar, by another path or by an error of another kind.     *)
(***************************************************************************)
C21_NoNotFoundReturned ==
    pc = "done" => ret.err.kind # "notFound"

(***************************************************************************)
(* C22.  A phrase with an ISO date that is well formed and is no date of   *)
(* the calendar makes ParseRange and ParseDuration fail with an error of   *)
(* kind DateInvalid: the kind that dateValid raises reaches the entry      *)
(* point unchanged.                                                        *)
(***************************************************************************)
C22_DateInvalidKind ==
    (pc = "done" /\ dateValid(DateRead) # NoErr)
      => (ret.err # NoErr /\ ret.err.kind = "dateInvalid")

(***************************************************************************)
(* The store.                                                              *)
(***************************************************************************)
\* The server has run since it first started on an empty log: nextID counts
\* the reservations added, which a start of the server on a log that holds
\* one no longer does.
Unrestarted ==
    /\ memory.nextID = Cardinality({k \in 1..Len(file) : file[k].Operation = "add"})

\* The stored reservations i and j are two bookings of one resource at one
\* time.
DoubleBooked(i, j) ==
    /\ i # j
    /\ memory.reservations[i].Resource = memory.reservations[j].Resource
    /\ memory.reservations[i].Start < memory.reservations[j].End
    /\ memory.reservations[i].End > memory.reservations[j].Start

\* C23: No double booking: starting from an empty store, after any sequence
\* of Add, Update and Delete calls, successful or failed, no two stored
\* reservations of the same resource overlap in time, a and b overlapping
\* when a.Start < b.End and a.End > b.Start.
C23_NoDoubleBooking ==
    Unrestarted
      => \A i, j \in 1..Len(memory.reservations) : ~DoubleBooked(i, j)

\* C29: Reservation IDs stay unique: after any sequence of Add, Update and
\* Delete calls and of restarts of the server, NewMemory replaying the log
\* through ReadLog, no two stored reservations have the same ID.
C29_UniqueIDs ==
    \A i, j \in 1..Len(memory.reservations) :
        i # j => memory.reservations[i].ID # memory.reservations[j].ID

\* Both clients were shown the same reservation with the same LastModified
\* and the Update of each was made.
BothUpdated ==
    /\ client["c1"].pc = "done" /\ client["c1"].err = ""
    /\ client["c2"].pc = "done" /\ client["c2"].err = ""
    /\ client["c1"].ref = client["c2"].ref
    /\ client["c1"].seen = client["c2"].seen
    /\ client["c1"].req.LastModified = client["c2"].req.LastModified

\* C30: Updates are guarded by LastModified: when two clients read the same
\* reservation and both call Update with that same LastModified, at most
\* one of the two updates is made, under every interleaving of the two
\* calls.
C30_AtMostOneUpdate == Unrestarted => ~BothUpdated

(***************************************************************************)
(* C24                                                                     *)
(***************************************************************************)
\* The builder a duration is added to: the timespec built so far, or the
\* anchor to the minute.
DurationBase == IF timespec = NilTime THEN anchor - (anchor % 60) ELSE timespec

\* The duration the queue asks for after its `+`, in seconds: a Number of
\* hours.
HoursAsked == Head(Tail(tokens)).Num * 3600

\* The queue starts with `+ N` or `+ N hours`.
HoursFirst ==
    /\ DurationFirst
    /\ Len(tokens) >= 2
    /\ tokens[2].Type = "TokNumber"
    /\ Len(tokens) >= 3 => tokens[3].Type = "TokRelHour"

\* C24: adding a relative duration never undershoots.  For every builder
\* time a of whole minutes and every duration d of whole hours, AddMinutes
\* yields the smallest 30-minute boundary that is not before a + d:
\* a + d <= result < a + d + 30 minutes.
C24_AddMinutesCeiling ==
    [][(InParseTimeSpec /\ HoursFirst)
         => /\ DurationBase % 60 = 0
            /\ pc' # pc
            /\ tsret'.err = NoErr
            /\ tsret'.t = Time_AddMinutes(DurationBase, HoursAsked)
            /\ tsret'.t % (30 * 60) = 0
            /\ DurationBase + HoursAsked <= tsret'.t
            /\ tsret'.t < DurationBase + HoursAsked + 30 * 60]_vars

\* 25 hours were added to 11:14: the nearest half hour, 12:00 of the next
\* day, would undershoot, and the result is 12:30.
C24_Witness ==
    /\ pc = "first"
    /\ tsret.err = NoErr
    /\ Len(Lexed) >= 2
    /\ Lexed[1].Type = "TokPlus"
    /\ Lexed[2].Num = 25
    /\ (now % 3600) \div 60 = 14
    /\ tsret.t = now - (now % 60) + 25 * 3600 + 16 * 60

(***************************************************************************)
(* C25                                                                     *)
(***************************************************************************)
\* The phrase is `+ N hours`.
PlusHoursPhrase ==
    /\ Len(args) = 3
    /\ Len(Lexed) = 3
    /\ Lexed[1].Type = "TokPlus"
    /\ Lexed[2].Type = "TokNumber"
    /\ Lexed[3].Type = "TokRelHour"

\* C25: the requested amount is honoured at the entry point.  For every
\* `now`, instants with nonzero seconds included, ParseRange on `+ N hours`
\* returns (start, end) with end - start >= N hours, and ParseDuration on
\* the same phrase returns end with end - now >= N hours.
C25_AmountHonoured ==
    (pc = "done" /\ PlusHoursPhrase)
      => /\ ret.err = NoErr
         /\ op = "ParseRange" => ret.end - ret.start >= Lexed[2].Num * 3600
         /\ op = "ParseDuration" => ret.end - now >= Lexed[2].Num * 3600

(***************************************************************************)
(* C26                                                                     *)
(***************************************************************************)
\* The token t is a date of the calendar written dddd-dd-dd, and its fields
\* are the three parts of its text.
IsoDate(t) ==
    /\ t.Year \in 0..9999
    /\ Gregorian(t.Year, t.Month, t.Day)
    /\ t.Val = DateWord(t.Year, t.Month, t.Day)

\* The number of `-` among the characters s.
RECURSIVE Dashes(_)
Dashes(s) ==
    IF s = <<>> THEN 0 ELSE (IF Head(s) = "-" THEN 1 ELSE 0) + Dashes(Tail(s))

\* Every Date token of q is a date written dddd-dd-dd, no other token of q
\* has a `-`, and every `-` of the phrase a is in a Date token.
DatesOnly(q, a) ==
    /\ \A i \in 1..Len(q) :
          IF q[i].Type = "TokDate" THEN IsoDate(q[i]) ELSE Dashes(q[i].Val) = 0
    /\ Dashes(Characters(a)) = 2 * Cardinality({i \in 1..Len(q) : q[i].Type = "TokDate"})

\* C26: in every successfully lexed queue, each token of kind Date has text
\* of the form dddd-dd-dd, with year, month and day fields equal to its
\* three parts and forming a valid Gregorian date, and no token of any
\* other kind contains `-`: every `-` of the phrase has turned the open
\* token into a Date, and a Date that fails the format or the calendar
\* check has aborted the whole lexing.
C26_DateTokens == LexedOK => \E r \in {tokenize(args)} : DatesOnly(r.fifo.tokens, args)

\* A phrase with a date and a word written after it without a space was
\* lexed: the date is a token of its own.
C26_Witness ==
    /\ LexedOK
    /\ Len(args) = 1
    /\ Len(args[1]) = 12
    /\ Len(Lexed) = 2
    /\ Lexed[1].Type = "TokDate"
    /\ Lexed[1].Day = 31
    /\ Lexed[2].Type = "TokTo"

(***************************************************************************)
(* C27                                                                     *)
(***************************************************************************)
\* The queue s is what is left of the queue q after tokens were taken from
\* its front.
IsSuffix(s, q) ==
    /\ Len(s) <= Len(q)
    /\ s = SubSeq(q, Len(q) - Len(s) + 1, Len(q))

\* One step of a call: a pass of the leading-`from` loop takes the `from`
\* off the queue, an iteration of parseTimeSpec's loop on a queue that is
\* not empty takes at least the token it starts with, and on an empty queue
\* ends the loop; the queue after any step is what the lexer produced, or
\* what is left of the queue before the step.
Consumes ==
    /\ (pc = "again" /\ tokens # <<>> /\ Head(tokens).Type = "TokFrom")
          => (tokens' = Tail(tokens) /\ pc' = "again")
    /\ (pc \in {"spec1", "spec2", "dspec"} /\ tokens # <<>>)
          => (IsSuffix(tokens', Tail(tokens)))
    /\ (pc \in {"spec1", "spec2", "dspec"} /\ tokens = <<>>)
          => (tokens' = <<>> /\ pc' # pc)
    /\ IF pc = "call"
       THEN pc' # "call" /\ IsSuffix(tokens', tokenize(args).fifo.tokens)
       ELSE IsSuffix(tokens', tokens)

\* C27: every call to ParseRange and ParseDuration terminates: each
\* iteration of the leading-`from` loop and of the parseTimeSpec loop
\* removes a token from the queue, no token is ever pushed back, and the
\* tokens popped are never more than the tokens lexed.
C27_Terminates == <>(pc = "done") /\ [][Consumes]_vars

\* ParseRange has returned on `from from now now`: both loops went round
\* twice and the queue is empty.
C27_Witness ==
    /\ pc = "done"
    /\ op = "ParseRange"
    /\ Len(args) = 4
    /\ tokens = <<>>
    /\ \E r \in {tokenize(args)} :
          /\ Len(r.fifo.tokens) = 4
          /\ r.fifo.tokens[1].Type = "TokFrom"
          /\ r.fifo.tokens[2].Type = "TokFrom"
          /\ r.fifo.tokens[3].Type = "TokNow"
          /\ r.fifo.tokens[4].Type = "TokNow"

(***************************************************************************)
(* C28                                                                     *)
(***************************************************************************)
\* The queue is a number of hours and nothing else: `N`, `+ N` or
\* `+ N hours`.
HoursOnly ==
    \/ Len(tokens) = 1 /\ tokens[1].Type = "TokNumber"
    \/ /\ Len(tokens) \in {2, 3}
       /\ tokens[1].Type = "TokPlus"
       /\ tokens[2].Type = "TokNumber"
       /\ Len(tokens) = 3 => tokens[3].Type = "TokRelHour"

\* The number of hours of such a queue.
HoursGiven == IF Len(tokens) = 1 THEN tokens[1].Num ELSE tokens[2].Num

\* C28: the two additive policies agree.  For every anchor and every N the
\* sole bare number `N` (AddHours) resolves to the same instant as `+ N`
\* and `+ N hours` (AddMinutes): the smallest half-hour boundary not before
\* the anchor cut to the minute plus N hours.
C28_PoliciesAgree ==
    [][(InParseTimeSpec /\ HoursOnly)
         => /\ pc' # pc
            /\ tokens' = <<>>
            /\ tsret'.err = NoErr
            /\ tsret'.t = HalfHourCeil(anchor - (anchor % 60) + HoursGiven * 3600)]_vars

\* `25` alone at 11:14: the bare number gave 12:30 of the next day, as
\* `+ 25` does.
C28_Witness ==
    /\ pc \in {"first", "dfinish"}
    /\ tsret.err = NoErr
    /\ Len(args) = 1
    /\ Len(Lexed) = 1
    /\ Lexed[1].Type = "TokNumber"
    /\ Lexed[1].Num = 25
    /\ (now % 3600) \div 60 = 14
    /\ tsret.t = now - (now % 60) + 25 * 3600 + 16 * 60

====
